---- MODULE Spec2Model ----
(***************************************************************************)
(* A model of the SnapTrade -> IBKR batch trading script (src/test.py)     *)
(* and of the two smaller scripts beside it (src/test2.py, src/script.py). *)
(*                                                                         *)
(* These specifications share this module:                                 *)
(*   RetrySpec     SnapTradeManager._call_with_retry and _apply_rate_limit,*)
(*                 statement by statement, with the passing of time, run   *)
(*                 by the main thread alone (a sequential run);            *)
(*   RetryParSpec  the same, run by two pool workers that share the one    *)
(*                 manager;                                                *)
(*   Spec          process_orders / process_single_order: validation pass, *)
(*                 idempotency check, symbol resolution, impact check,     *)
(*                 placement, refresh and the collection of the results,   *)
(*                 sequential and with two workers. Each API call is a     *)
(*                 whole _call_with_retry; time is left out.               *)
(*                 main's steps after it (results.csv, exit code) follow;  *)
(*   ValidateSpec  validate_order_row on one CSV row of any shape;         *)
(*   KeySpec       OrderRow.idempotency_key on two rows, in a sequential   *)
(*                 dry run whose searches find nothing;                    *)
(*   SymbolSpec    get_universal_symbol_id on one ticker;                  *)
(*   Test2Spec     src/test2.py: fetch_snaptrade_orders, main and          *)
(*                 place_to_tws;                                           *)
(*   ScriptSpec    src/script.py: search_symbol, place_order_from_csv and  *)
(*                 the loop of main.                                       *)
(***************************************************************************)
EXTENDS Integers, Sequences, FiniteSets, TLC

(***************************************************************************)
(* Bounds of the model.                                                    *)
(***************************************************************************)
\* clock ticks per second: the clock of the model counts 1/TicksPerSec s
TicksPerSec == 2
\* largest value of --max-retries that is explored
MaxRetriesBound == 2
\* number of _call_with_retry calls a run of RetrySpec may begin
MaxCalls == 3
\* number of loaded CSV rows of a run of Spec
MaxRows == 2
\* longest answer of the orders endpoint drawn from the pool (src/test2.py)
MaxUpstream == 2
\* number of orders read_orders_from_csv returns (src/script.py)
MaxCsvOrders == 2

\* elapsed times are told apart up to one second: every min_gap is at most that
Horizon == TicksPerSec

None == "None"

\* results.csv before write_results_csv has run
NotWritten == [written |-> FALSE, lines |-> <<>>]
\* the value of exit_code while the process has not exited
NoExit == -1

(***************************************************************************)
(* State                                                                   *)
(***************************************************************************)
VARIABLES
    \* ---- command line / SnapTradeManager.__init__
    max_retries,        \* self.max_retries
    rate_limit,         \* self.rate_limit
    concurrency,        \* args.concurrency
    \* ---- RetrySpec: the manager, the clock and the threads
    since_last_request, \* time.time() - self._last_request_time, in ticks,
                        \* counted up to Horizon
    tpc,                \* thread -> position in _call_with_retry
    attempt,            \* thread -> loop variable `attempt`
    sleep_left,         \* thread -> ticks left of the time.sleep() it is in
    last_exception,     \* thread -> local `last_exception`
    invocations,        \* thread -> times func was invoked by the current call
    waits,              \* thread -> backoff waits (seconds) of the current call
    api_value,          \* thread -> value the latest invocation of func returned
    retval,             \* thread -> value the current call returned
    begun,              \* number of _call_with_retry calls begun so far
    last_gap,           \* ticks between the starts of the two latest API calls,
                        \* counted up to Horizon
    \* ---- Spec: process_orders and its workers
    dry_run,            \* args.dry_run
    rows,               \* the loaded CSV rows, as dicts of strings
    main_pc,            \* position of the main thread in process_orders
    validated_orders,   \* process_orders: validated_orders
    results,            \* process_orders: results
    seen_keys,          \* process_orders: seen_keys
    next_task,          \* index of the next validated order to be started
    wpc,                \* worker -> position in process_single_order
    wtask,              \* worker -> index of the validated order it processes
    symbol_id,          \* worker -> local symbol_id
    trade_id,           \* worker -> local trade_id
    broker_order_id,    \* worker -> local broker_order_id
    futures,            \* validated order -> outcome of its future
    collected,          \* validated orders whose future main has consumed
    called,             \* validated order -> APIs invoked for it
    place_args,         \* validated order -> trade_ids place_order was given
    impact_returns,     \* validated order -> what check_order_impact returned for it
    place_ok,           \* validated order -> successful invocations of the place API
    stamped_by,         \* threads that have written self._last_request_time
    results_file,       \* results.csv: whether it was written, and its rows
    exit_code,          \* exit code of the process, NoExit while it runs
    \* ---- SymbolSpec: one call of get_universal_symbol_id
    lookup,             \* its arguments, what the search did, and what it returned
    \* ---- Test2Spec: src/test2.py
    t2_args,            \* the command line: live, account_index, recent_first
    t2_api,             \* what SnapTrade answers: accounts, recent orders, all orders
    t2_pc,              \* position of main / place_to_tws
    df,                 \* the DataFrame of mapped orders, row by row
    ib,                 \* the IB client: connected now, ever connected
    t2_i,               \* index of the row the loop of place_to_tws is at
    transmitted,        \* the rows handed to ib.placeOrder, in order
    \* ---- ScriptSpec: src/script.py
    DRY_RUN,            \* the module constant DRY_RUN, read from the environment
    csv_orders,         \* main: orders, as read_orders_from_csv returned them
    s_pc,               \* position of main / place_order_from_csv
    s_idx,              \* main: idx
    s_symbol_id,        \* place_order_from_csv: symbol_id
    s_found,            \* what search_symbol returned, call by call
    s_returns,          \* what place_order_from_csv returned, call by call
    force_orders        \* the orders handed to trading.place_force_order

tvars == <<since_last_request, tpc, attempt, sleep_left, last_exception,
           invocations, waits, api_value, retval, begun, last_gap>>
\* process_orders and the results file
pvars == <<dry_run, rows, main_pc, validated_orders, results, seen_keys, next_task,
           wpc, wtask, symbol_id, trade_id, broker_order_id, futures, collected,
           called, place_args, impact_returns, place_ok, stamped_by, results_file>>
\* what main keeps outside process_orders
xvars == <<results_file, exit_code>>
t2vars == <<t2_args, t2_api, t2_pc, df, ib, t2_i, transmitted>>
svars == <<DRY_RUN, csv_orders, s_pc, s_idx, s_symbol_id, s_found, s_returns, force_orders>>
\* the state of the specifications of single functions and of the other scripts
yvars == <<lookup, t2vars, svars>>
ovars == <<pvars, exit_code, yvars>>
cvars == <<max_retries, rate_limit, concurrency>>
vars == <<cvars, tvars, ovars>>

(***************************************************************************)
(* Outcomes of one invocation of the wrapped API function.                 *)
(***************************************************************************)
\* HTTP statuses explored: the edges of the ranges the code tests
Statuses == {399, 400, 429, 499, 500, 599, 600}
Values == {"r1", "r2"}

Ok(v) == [cls |-> "ok", hasStatus |-> FALSE, status |-> 0, value |-> v]
ApiException(s) == [cls |-> "ApiException", hasStatus |-> TRUE, status |-> s, value |-> None]
ApiExceptionNoStatus == [cls |-> "ApiException", hasStatus |-> FALSE, status |-> 0, value |-> None]
OtherException == [cls |-> "Exception", hasStatus |-> FALSE, status |-> 0, value |-> None]
NoOutcome == [cls |-> "none", hasStatus |-> FALSE, status |-> 0, value |-> None]

Failures == {ApiException(s) : s \in Statuses} \cup {ApiExceptionNoStatus, OtherException}
Outcomes == {Ok(v) : v \in Values} \cup Failures

\* a slip: `2 * attempt` for `2 ** attempt`
Backoff_Linear(k) == 2 * k

\* `wait = 2 ** attempt`
Backoff(k) == 2 ^ k

Raise == [act |-> "raise", wait |-> 0]
Retry(k) == [act |-> "retry", wait |-> Backoff(k)]

\* a slip: every ApiException with a status below 500 is retried like the others
OnException_Retry4xx(e, k, mr) ==
    IF e.cls = "ApiException" /\ e.hasStatus /\ e.status = 429
    THEN Retry(k)
    ELSE IF k < mr THEN Retry(k) ELSE Raise

\* a slip: a server error is raised at once, like a client error
OnException_Raise5xx(e, k, mr) ==
    IF e.cls = "ApiException"
    THEN IF e.hasStatus /\ 400 <= e.status /\ e.status < 600 /\ e.status # 429
         THEN Raise
         ELSE IF e.hasStatus /\ e.status = 429
         THEN Retry(k)
         ELSE IF k < mr THEN Retry(k) ELSE Raise
    ELSE IF k < mr THEN Retry(k) ELSE Raise

\* the two except clauses of _call_with_retry: what happens after invocation
\* number `k` (0-based) failed with exception e, with `mr` = self.max_retries.
\* "retry" sleeps `wait` seconds and goes on to the next iteration of the loop.
OnException(e, k, mr) ==
    IF e.cls = "ApiException"
    THEN IF e.hasStatus /\ 400 <= e.status /\ e.status < 500 /\ e.status # 429
         THEN Raise
         ELSE IF e.hasStatus /\ e.status = 429
         THEN Retry(k)
         ELSE IF e.hasStatus /\ 500 <= e.status /\ e.status < 600 /\ k < mr
         THEN Retry(k)
         ELSE IF k < mr THEN Retry(k) ELSE Raise
    ELSE IF k < mr THEN Retry(k) ELSE Raise

(***************************************************************************)
(* RetrySpec: _apply_rate_limit and _call_with_retry, step by step.        *)
(***************************************************************************)
Threads == 1..2
\* the threads that run: the main thread alone when concurrency <= 1
Running == IF concurrency > 1 THEN 1..concurrency ELSE {1}

Min(a, b) == IF a <= b THEN a ELSE b
Max(a, b) == IF a >= b THEN a ELSE b

\* a slip: one iteration too many
InRange_OneMore(k, mr) == k <= mr + 1

\* `attempt in range(self.max_retries + 1)`
InRange(k, mr) == 0 <= k /\ k <= mr

\* values of --rate-limit explored: 0 (off) and the rates whose gap is a
\* whole number of ticks
RateLimits == {0} \cup {n \in 1..TicksPerSec : TicksPerSec % n = 0}
\* `min_gap = 1.0 / self.rate_limit`, in ticks
MinGap == TicksPerSec \div rate_limit

\* a slip: the limiter compares against the wrong unit and never waits
MustWait_Never(rl, elapsed) == rl > 0 /\ elapsed < 0

\* `if self.rate_limit > 0: ... if elapsed < min_gap:`
MustWait(rl, elapsed) == rl > 0 /\ elapsed < TicksPerSec \div rl

\* SnapTradeManager.__init__ with the command line's values; the clock reads
\* seconds since 1970, so the first request is far from _last_request_time = 0
ManagerInit ==
    /\ max_retries \in -1..MaxRetriesBound
    /\ rate_limit \in RateLimits
    /\ since_last_request = Horizon
    /\ tpc = [t \in Threads |-> "idle"]
    /\ attempt = [t \in Threads |-> 0]
    /\ sleep_left = [t \in Threads |-> 0]
    /\ last_exception = [t \in Threads |-> NoOutcome]
    /\ invocations = [t \in Threads |-> 0]
    /\ waits = [t \in Threads |-> <<>>]
    /\ api_value = [t \in Threads |-> None]
    /\ retval = [t \in Threads |-> None]
    /\ begun = 0
    /\ last_gap = Horizon

\* process_orders has not been entered
OrdersIdle ==
    /\ dry_run = FALSE
    /\ rows = <<>>
    /\ main_pc = "done"
    /\ validated_orders = <<>>
    /\ results = <<>>
    /\ seen_keys = {}
    /\ next_task = 1
    /\ wpc = [t \in Threads |-> "idle"]
    /\ wtask = [t \in Threads |-> 0]
    /\ symbol_id = [t \in Threads |-> None]
    /\ trade_id = [t \in Threads |-> None]
    /\ broker_order_id = [t \in Threads |-> None]
    /\ futures = <<>>
    /\ collected = {}
    /\ called = <<>>
    /\ place_args = <<>>
    /\ impact_returns = <<>>
    /\ place_ok = <<>>
    /\ stamped_by = {}
    /\ results_file = NotWritten
    /\ exit_code = NoExit

\* no _call_with_retry was made
NoCall == [kind |-> "none", out |-> NoOutcome, calls |-> 0, ok_calls |-> 0]

\* no call of get_universal_symbol_id is followed
LookupIdle == lookup = [ticker |-> None, exchange |-> None, call |-> NoCall,
                        done |-> FALSE, symbols |-> <<>>, raised |-> FALSE, id |-> None]

\* src/test2.py is not run
Test2Idle ==
    /\ t2_args = [live |-> FALSE, account_index |-> 0, recent_first |-> TRUE]
    /\ t2_api = [accounts |-> 0, recent |-> <<>>, orders |-> <<>>]
    /\ t2_pc = "exited"
    /\ df = <<>>
    /\ ib = [connected |-> FALSE, opened |-> FALSE]
    /\ t2_i = 1
    /\ transmitted = <<>>

\* src/script.py is not run
ScriptIdle ==
    /\ DRY_RUN = TRUE
    /\ csv_orders = <<>>
    /\ s_pc = "exited"
    /\ s_idx = 1
    /\ s_symbol_id = None
    /\ s_found = <<>>
    /\ s_returns = <<>>
    /\ force_orders = <<>>

\* the specifications of single functions and of the other scripts are not run
OthersIdle == LookupIdle /\ Test2Idle /\ ScriptIdle

\* time passes: one tick
Tick ==
    /\ since_last_request' = Min(since_last_request + 1, Horizon)
    /\ sleep_left' = [t \in Threads |-> Max(sleep_left[t] - 1, 0)]
    /\ UNCHANGED <<cvars, ovars, tpc, attempt, last_exception, invocations, waits,
                   api_value, retval, begun, last_gap>>

\* a caller enters _call_with_retry: `last_exception = None`, and the loop starts
BeginCall(t) ==
    /\ t \in Running
    /\ tpc[t] = "idle"
    /\ begun < MaxCalls
    /\ begun' = begun + 1
    /\ tpc' = [tpc EXCEPT ![t] = "loop"]
    /\ UNCHANGED <<cvars, ovars, since_last_request, attempt, sleep_left, last_exception,
                   invocations, waits, api_value, retval, last_gap>>

\* `for attempt in range(self.max_retries + 1)`: the next iteration, or, when
\* the range is used up, `if last_exception: raise last_exception`
LoopHead(t) ==
    /\ tpc[t] = "loop"
    /\ tpc' = [tpc EXCEPT ![t] =
                 IF InRange(attempt[t], max_retries) THEN "rate_limit"
                 ELSE IF last_exception[t] # NoOutcome THEN "raised"
                 ELSE "returned"]
    /\ UNCHANGED <<cvars, ovars, since_last_request, attempt, sleep_left, last_exception,
                   invocations, waits, api_value, retval, begun, last_gap>>

\* _apply_rate_limit up to the sleep: reads the clock and _last_request_time
RateLimitRead(t) ==
    /\ tpc[t] = "rate_limit"
    /\ IF MustWait(rate_limit, since_last_request)
       THEN /\ sleep_left' = [sleep_left EXCEPT ![t] = MinGap - since_last_request]
            /\ tpc' = [tpc EXCEPT ![t] = "rate_sleep"]
       ELSE /\ tpc' = [tpc EXCEPT ![t] = "stamp"]
            /\ UNCHANGED sleep_left
    /\ UNCHANGED <<cvars, ovars, since_last_request, attempt, last_exception,
                   invocations, waits, api_value, retval, begun, last_gap>>

\* time.sleep(min_gap - elapsed) returns, no earlier than asked
RateLimitWake(t) ==
    /\ tpc[t] = "rate_sleep"
    /\ sleep_left[t] = 0
    /\ tpc' = [tpc EXCEPT ![t] = "stamp"]
    /\ UNCHANGED <<cvars, ovars, since_last_request, attempt, sleep_left, last_exception,
                   invocations, waits, api_value, retval, begun, last_gap>>

\* `self._last_request_time = time.time()` and the call `func(*args, **kwargs)`
\* that follows it: the API call starts at the time stamped
StampAndInvoke(t) ==
    /\ tpc[t] = "stamp"
    /\ last_gap' = since_last_request
    /\ since_last_request' = 0
    /\ invocations' = [invocations EXCEPT ![t] = @ + 1]
    /\ tpc' = [tpc EXCEPT ![t] = "in_call"]
    /\ UNCHANGED <<cvars, ovars, attempt, sleep_left, last_exception, waits, api_value,
                   retval, begun>>

\* func returns: `return result`
InvokeReturns(t, o) ==
    /\ tpc[t] = "in_call"
    /\ o.cls = "ok"
    /\ api_value' = [api_value EXCEPT ![t] = o.value]
    /\ retval' = [retval EXCEPT ![t] = o.value]
    /\ tpc' = [tpc EXCEPT ![t] = "returned"]
    /\ UNCHANGED <<cvars, ovars, since_last_request, attempt, sleep_left, last_exception,
                   invocations, waits, begun, last_gap>>

\* func raises: the except clauses
InvokeRaises(t, o) ==
    /\ tpc[t] = "in_call"
    /\ o.cls # "ok"
    /\ last_exception' = [last_exception EXCEPT ![t] = o]
    /\ LET h == OnException(o, attempt[t], max_retries) IN
       IF h.act = "raise"
       THEN /\ tpc' = [tpc EXCEPT ![t] = "raised"]
            /\ UNCHANGED <<sleep_left, waits>>
       ELSE /\ tpc' = [tpc EXCEPT ![t] = "backoff"]
            /\ waits' = [waits EXCEPT ![t] = Append(@, h.wait)]
            /\ sleep_left' = [sleep_left EXCEPT ![t] = h.wait * TicksPerSec]
    /\ UNCHANGED <<cvars, ovars, since_last_request, attempt, invocations, api_value,
                   retval, begun, last_gap>>

\* time.sleep(wait) returns, and the loop goes to its next iteration
BackoffWake(t) ==
    /\ tpc[t] = "backoff"
    /\ sleep_left[t] = 0
    /\ attempt' = [attempt EXCEPT ![t] = @ + 1]
    /\ tpc' = [tpc EXCEPT ![t] = "loop"]
    /\ UNCHANGED <<cvars, ovars, since_last_request, sleep_left, last_exception,
                   invocations, waits, api_value, retval, begun, last_gap>>

\* the caller takes the result (or the exception) of _call_with_retry; the
\* locals of the call are gone
EndCall(t) ==
    /\ tpc[t] \in {"returned", "raised"}
    /\ tpc' = [tpc EXCEPT ![t] = "idle"]
    /\ attempt' = [attempt EXCEPT ![t] = 0]
    /\ last_exception' = [last_exception EXCEPT ![t] = NoOutcome]
    /\ invocations' = [invocations EXCEPT ![t] = 0]
    /\ waits' = [waits EXCEPT ![t] = <<>>]
    /\ api_value' = [api_value EXCEPT ![t] = None]
    /\ retval' = [retval EXCEPT ![t] = None]
    /\ UNCHANGED <<cvars, ovars, since_last_request, sleep_left, begun, last_gap>>

RetryNext ==
    \/ Tick
    \/ \E t \in Threads : BeginCall(t)
    \/ \E t \in Threads : LoopHead(t)
    \/ \E t \in Threads : RateLimitRead(t)
    \/ \E t \in Threads : RateLimitWake(t)
    \/ \E t \in Threads : StampAndInvoke(t)
    \/ \E t \in Threads, o \in Outcomes : InvokeReturns(t, o)
    \/ \E t \in Threads, o \in Outcomes : InvokeRaises(t, o)
    \/ \E t \in Threads : BackoffWake(t)
    \/ \E t \in Threads : EndCall(t)

\* a sequential run: the main thread makes every call
RetryInit == ManagerInit /\ OrdersIdle /\ OthersIdle /\ concurrency = 1
RetrySpec == RetryInit /\ [][RetryNext]_vars

\* a thread-pool run: the workers share the one manager
RetryParInit == ManagerInit /\ OrdersIdle /\ OthersIdle /\ concurrency = 2
RetryParSpec == RetryParInit /\ [][RetryNext]_vars

(***************************************************************************)
(* CSV rows, validate_order_row and OrderRow.idempotency_key               *)
(***************************************************************************)
\* str.strip() on the strings that occur in the rows
Strip(s) ==
    CASE s = " buy" -> "buy"
      [] s = " " -> ""
      [] OTHER -> s

\* str.upper() on the strings that occur in the rows
Upper(s) ==
    CASE s = "buy" -> "BUY"
      [] s = "sell" -> "SELL"
      [] s = "aapl" -> "AAPL"
      [] s = "day" -> "DAY"
      [] s = "gtc" -> "GTC"
      [] s = "market" -> "MARKET"
      [] s = "limit" -> "LIMIT"
      [] s = "nasdaq" -> "NASDAQ"
      [] s = "nyse" -> "NYSE"
      [] s = "spy" -> "SPY"
      [] s = "msft" -> "MSFT"
      [] s = "lmt" -> "LMT"
      [] OTHER -> s

\* a Decimal: coef * 10^(-exp), or NaN; str() tells 10 from 10.0, so both are kept
Dec(c, e) == [none |-> FALSE, nan |-> FALSE, coef |-> c, exp |-> e]
NoDecimal == [none |-> TRUE, nan |-> FALSE, coef |-> 0, exp |-> 0]
NaNDecimal == [none |-> FALSE, nan |-> TRUE, coef |-> 0, exp |-> 0]

\* parse_decimal: None for a missing or blank value and for one Decimal()
\* rejects; Decimal() accepts "NaN"
ParseDecimal(value) ==
    IF value = None \/ value = "" \/ Strip(value) = ""
    THEN NoDecimal
    ELSE CASE Strip(value) = "10" -> Dec(10, 0)
           [] Strip(value) = "10.0" -> Dec(100, 1)
           [] Strip(value) = "5" -> Dec(5, 0)
           [] Strip(value) = "0" -> Dec(0, 0)
           [] Strip(value) = "-5" -> Dec(-5, 0)
           [] Strip(value) = "150.50" -> Dec(15050, 2)
           [] Strip(value) = "NaN" -> NaNDecimal
           [] OTHER -> NoDecimal

\* the rows the runs of Spec are made of
RowA ==
    [account_id |-> "U1", ticker |-> "AAPL", side |-> "BUY", quantity |-> "10",
     order_type |-> "MARKET", limit_price |-> "", stop_price |-> "",
     time_in_force |-> "", exchange |-> ""]
\* RowA written another way, with an exchange
RowA2 ==
    [account_id |-> "U1", ticker |-> "aapl", side |-> " buy", quantity |-> "10",
     order_type |-> "market", limit_price |-> "", stop_price |-> "",
     time_in_force |-> "day", exchange |-> "NASDAQ"]
\* a limit order without an account
RowL ==
    [account_id |-> "", ticker |-> "AAPL", side |-> "SELL", quantity |-> "5",
     order_type |-> "LIMIT", limit_price |-> "150.50", stop_price |-> "",
     time_in_force |-> "GTC", exchange |-> ""]
\* a row that fails validation
RowBad ==
    [account_id |-> "U1", ticker |-> "AAPL", side |-> "BUY", quantity |-> "0",
     order_type |-> "MARKET", limit_price |-> "", stop_price |-> "",
     time_in_force |-> "", exchange |-> ""]
\* a row whose quantity Decimal() accepts and `<=` does not
RowNaN ==
    [account_id |-> "U1", ticker |-> "AAPL", side |-> "BUY", quantity |-> "NaN",
     order_type |-> "MARKET", limit_price |-> "", stop_price |-> "",
     time_in_force |-> "", exchange |-> ""]
\* a line that ends before its last (optional) column, `U1,AAPL,BUY,10,MARKET,,,DAY`:
\* csv.DictReader fills the missing column with None
RowShort ==
    [account_id |-> "U1", ticker |-> "AAPL", side |-> "BUY", quantity |-> "10",
     order_type |-> "MARKET", limit_price |-> "", stop_price |-> "",
     time_in_force |-> "DAY", exchange |-> None]
RowPool == {RowA, RowA2, RowL, RowBad, RowNaN, RowShort}

Invalid(msg) == [ok |-> FALSE, raised |-> FALSE, error |-> msg]
\* an exception out of validate_order_row
Raises(exc) == [ok |-> FALSE, raised |-> TRUE, error |-> exc]

\* a slip: `< 0` for `<= 0`
PriceCheck_ZeroOk(d) ==
    IF d.none THEN "bad" ELSE IF d.nan THEN "raise" ELSE IF d.coef < 0 THEN "bad" ELSE "ok"

\* `price is None or price <= 0`; an ordering comparison with a NaN raises
\* decimal.InvalidOperation
PriceCheck(d) ==
    IF d.none THEN "bad" ELSE IF d.nan THEN "raise" ELSE IF d.coef <= 0 THEN "bad" ELSE "ok"

\* validate_order_row: [ok |-> TRUE, order |-> OrderRow], [ok |-> FALSE, error],
\* or an exception
validate_order_row(row_dict, row_num) ==
    LET row == [k \in DOMAIN row_dict |->
                   IF row_dict[k] = None THEN None ELSE Strip(row_dict[k])]
        Blank(v) == v = None \/ v = ""
        side == Upper(row.side)
        order_type == Upper(row.order_type)
        quantity == ParseDecimal(row.quantity)
        limit_price == ParseDecimal(row.limit_price)
        stop_price == ParseDecimal(row.stop_price)
        tif == IF Upper(row.time_in_force) = "" THEN "DAY" ELSE Upper(row.time_in_force)
        needs_limit == order_type \in {"LIMIT", "STOP_LIMIT"}
        needs_stop == order_type \in {"STOP", "STOP_LIMIT"}
    IN  IF Blank(row.ticker) \/ Blank(row.side) \/ Blank(row.quantity) \/ Blank(row.order_type)
        THEN Invalid("Missing required fields")
        ELSE IF side \notin {"BUY", "SELL"}
        THEN Invalid("Invalid side")
        ELSE IF order_type \notin {"MARKET", "LIMIT", "STOP", "STOP_LIMIT"}
        THEN Invalid("Invalid order_type")
        ELSE IF quantity.none
        THEN Invalid("Invalid or missing quantity")
        ELSE IF quantity.nan
        THEN Raises("InvalidOperation")
        ELSE IF quantity.coef <= 0
        THEN Invalid("Quantity must be positive")
        ELSE IF needs_limit /\ PriceCheck(limit_price) = "raise"
        THEN Raises("InvalidOperation")
        ELSE IF needs_limit /\ PriceCheck(limit_price) = "bad"
        THEN Invalid(IF order_type = "LIMIT"
                     THEN "LIMIT order requires a valid limit_price > 0"
                     ELSE "STOP_LIMIT order requires a valid limit_price > 0")
        ELSE IF needs_stop /\ PriceCheck(stop_price) = "raise"
        THEN Raises("InvalidOperation")
        ELSE IF needs_stop /\ PriceCheck(stop_price) = "bad"
        THEN Invalid(IF order_type = "STOP"
                     THEN "STOP order requires a valid stop_price > 0"
                     ELSE "STOP_LIMIT order requires a valid stop_price > 0")
        ELSE IF row.time_in_force = None
        THEN Raises("AttributeError")
        ELSE IF tif \notin {"DAY", "GTC"}
        THEN Invalid("Invalid time_in_force")
        ELSE IF row.account_id = None \/ row.exchange = None
        THEN Raises("AttributeError")
        ELSE [ok |-> TRUE, raised |-> FALSE,
              order |-> [row_num |-> row_num,
                         account_id |-> row.account_id,
                         ticker |-> Upper(row.ticker),
                         side |-> side,
                         quantity |-> quantity,
                         order_type |-> order_type,
                         limit_price |-> limit_price,
                         stop_price |-> stop_price,
                         time_in_force |-> tif,
                         exchange |-> IF row.exchange = "" THEN None ELSE row.exchange]]

\* `str(price or '')`: the empty string for None and for a zero Decimal
PriceText(d) == IF d.none \/ (d.coef = 0 /\ ~d.nan) THEN NoDecimal ELSE d

\* OrderRow.idempotency_key: the joined components; the 16 hex digits of their
\* SHA-256 are taken to differ whenever the components do
idempotency_key(order) ==
    <<order.account_id, order.ticker, order.side, order.quantity, order.order_type,
      PriceText(order.limit_price), PriceText(order.stop_price), order.time_in_force>>

(***************************************************************************)
(* _call_with_retry as a function of what func does at each invocation     *)
(***************************************************************************)
\* the failures told apart by the callers of _call_with_retry: a client
\* error, a rate limit, a server error and an exception that is no ApiException
CallFailures == {ApiException(400), ApiException(429), ApiException(500), OtherException}

\* what func does at invocation 1, 2, ... of one call with max_retries = mr
OutcomeSeqs(bodies, mr) ==
    [1..Max(mr + 1, 0) -> {Ok(b) : b \in bodies} \cup CallFailures]

Returned(o, n) == [kind |-> "return", out |-> o, calls |-> n, ok_calls |-> IF o.cls = "ok" THEN 1 ELSE 0]
Raised(o, n) == [kind |-> "raise", out |-> o, calls |-> n, ok_calls |-> 0]

\* the loop of _call_with_retry from iteration k on, `last` being last_exception
RECURSIVE RetryLoop(_, _, _, _)
RetryLoop(outs, k, mr, last) ==
    IF ~InRange(k, mr)
    THEN IF last # NoOutcome THEN Raised(last, k) ELSE Returned(NoOutcome, k)
    ELSE IF outs[k + 1].cls = "ok"
    THEN Returned(outs[k + 1], k + 1)
    ELSE IF OnException(outs[k + 1], k, mr).act = "raise"
    THEN Raised(outs[k + 1], k + 1)
    ELSE RetryLoop(outs, k + 1, mr, outs[k + 1])

\* _call_with_retry(func): out.value is the response when out.cls = "ok", and
\* out = NoOutcome when it returned None without invoking func
CallWithRetry(outs, mr) == RetryLoop(outs, 0, mr, NoOutcome)

\* values of --max-retries explored by Spec: one that allows no attempt at all,
\* and one that allows a first attempt and a retry (which covers what a run
\* without retries can do to an order)
OrderRetries == {-1, 1}

\* everything _call_with_retry can do with a func whose responses are `bodies`
CallResults(bodies) ==
    [mr \in OrderRetries |->
        {CallWithRetry(outs, mr) : outs \in OutcomeSeqs(bodies, mr)}]

(***************************************************************************)
(* The API wrappers of SnapTradeManager                                    *)
(***************************************************************************)
\* a symbol of a quotes response; exchange "null" stands for "exchange": None
SymNasdaq == [symbol |-> "AAPL", id |-> "S1", universal_symbol_id |-> None, exchange |-> "NASDAQ"]
SymNyse == [symbol |-> "AAPL", id |-> None, universal_symbol_id |-> "S2", exchange |-> "NYSE"]
SymWarrant == [symbol |-> "AAPLW", id |-> "S3", universal_symbol_id |-> None, exchange |-> "NASDAQ"]
SymNoId == [symbol |-> "AAPL", id |-> None, universal_symbol_id |-> None, exchange |-> "NASDAQ"]
SymNullExchange == [symbol |-> "AAPL", id |-> "S4", universal_symbol_id |-> None, exchange |-> "null"]

\* the bodies of the quotes responses explored
SearchBodies ==
    {<<>>, <<SymNasdaq>>, <<SymNyse, SymNasdaq>>, <<SymWarrant, SymNasdaq>>,
     <<SymNoId>>, <<SymNullExchange>>, <<SymWarrant, SymNoId, SymNyse>>,
     <<SymNasdaq, SymNullExchange>>}
\* an impact response with a trade id, and one without
ImpactBodies == {[trade_id |-> "T1"], [trade_id |-> None]}
PlaceBodies == {[order_id |-> "B1"], [order_id |-> None]}
RefreshBodies == {[details |-> "ok"]}

\* what the calls of each API through _call_with_retry can do
SearchCalls == CallResults(SearchBodies)
ImpactCalls == CallResults(ImpactBodies)
PlaceCalls == CallResults(PlaceBodies)
RefreshCalls == CallResults(RefreshBodies)

\* search_symbols, r being what _call_with_retry did
search_symbols(ticker, exchange, r) ==
    IF r.kind = "raise" \/ r.out.cls # "ok"
    THEN <<>>
    ELSE LET body == r.out.value
             OnExchange(sym) == Upper(sym.exchange) = Upper(exchange)
             Exact(sym) == Upper(sym.symbol) = Upper(ticker)
             filtered == IF exchange # None /\ body # <<>>
                         THEN SelectSeq(body, OnExchange)
                         ELSE body
             exact_matches == SelectSeq(filtered, Exact)
         IN  IF exchange # None /\ \E i \in 1..Len(body) : body[i].exchange = "null"
             THEN <<>>
             ELSE IF exact_matches # <<>> THEN exact_matches ELSE filtered

\* `a or b` on two optional strings
OrElse(a, b) == IF a # None /\ a # "" THEN a ELSE b

\* get_universal_symbol_id: the id, None, or an exception out of its own lines
get_universal_symbol_id(ticker, exchange, r) ==
    LET symbols == search_symbols(ticker, exchange, r)
        shown == SubSeq(symbols, 1, Min(Len(symbols), 5))
    IN  IF symbols = <<>>
        THEN [raised |-> FALSE, id |-> None]
        ELSE IF Len(symbols) > 1 /\ \E i \in 1..Len(shown) : shown[i].exchange = "null"
        THEN [raised |-> TRUE, id |-> None]
        ELSE IF Len(symbols) > 1 /\ exchange = None
        THEN [raised |-> FALSE, id |-> None]
        ELSE IF symbols[1].exchange = "null"
        THEN [raised |-> TRUE, id |-> None]
        ELSE [raised |-> FALSE,
              id |-> OrElse(symbols[1].id, symbols[1].universal_symbol_id)]

\* check_order_impact: (success, trade_id, error_message)
check_order_impact(r) ==
    IF r.kind = "raise"
    THEN [success |-> FALSE, trade_id |-> None,
          error |-> IF r.out.cls = "ApiException" THEN "Impact check failed"
                    ELSE "Impact check error"]
    ELSE IF r.out.cls # "ok"
    THEN [success |-> FALSE, trade_id |-> None, error |-> "Impact check error"]
    ELSE IF OrElse(r.out.value.trade_id, None) = None
    THEN [success |-> FALSE, trade_id |-> None,
          error |-> "No trade_id in impact check response"]
    ELSE [success |-> TRUE, trade_id |-> r.out.value.trade_id, error |-> None]

\* a slip: the trade id is not used when the response has no order id
place_order_NoFallback(tid, r) ==
    IF r.kind = "raise" \/ r.out.cls # "ok"
    THEN [success |-> FALSE, broker_order_id |-> None, error |-> "Placement error"]
    ELSE [success |-> TRUE, broker_order_id |-> r.out.value.order_id, error |-> None]

\* a slip: success is reported for the call that raised, failure for the one
\* that returned
place_order_Inverted(tid, r) ==
    [success |-> ~(r.kind = "return" /\ r.out.cls = "ok"), broker_order_id |-> tid,
     error |-> None]

\* place_order: (success, broker_order_id, error_message)
place_order(tid, r) ==
    IF r.kind = "raise"
    THEN [success |-> FALSE, broker_order_id |-> None,
          error |-> IF r.out.cls = "ApiException" THEN "Broker rejected"
                    ELSE "Placement error"]
    ELSE IF r.out.cls # "ok"
    THEN [success |-> FALSE, broker_order_id |-> None, error |-> "Placement error"]
    ELSE [success |-> TRUE, broker_order_id |-> OrElse(r.out.value.order_id, tid),
          error |-> None]

(***************************************************************************)
(* Spec: process_orders and process_single_order                           *)
(***************************************************************************)
OrderResult(row_num, status, reason, boid) ==
    [row_num |-> row_num, status |-> status, reason |-> reason, broker_order_id |-> boid]
NoResult == OrderResult(0, "none", "", None)
NoFuture == [done |-> FALSE, raised |-> FALSE, result |-> NoResult]

\* the row number csv.DictReader gives the i-th loaded row (row 1 is the header)
RowNum(i) == i + 1

\* process_orders is entered and nothing is written yet
ProcessOrdersEntered ==
    /\ main_pc = "validate"
    /\ validated_orders = <<>>
    /\ results = <<>>
    /\ seen_keys = {}
    /\ next_task = 1
    /\ wpc = [t \in Threads |-> "idle"]
    /\ wtask = [t \in Threads |-> 0]
    /\ symbol_id = [t \in Threads |-> None]
    /\ trade_id = [t \in Threads |-> None]
    /\ broker_order_id = [t \in Threads |-> None]
    /\ futures = <<>>
    /\ collected = {}
    /\ called = <<>>
    /\ place_args = <<>>
    /\ impact_returns = <<>>
    /\ place_ok = <<>>
    /\ stamped_by = {}
    /\ results_file = NotWritten
    /\ exit_code = NoExit

\* main has built the manager and loaded at least one row
Init ==
    /\ ManagerInit
    /\ max_retries \in OrderRetries
    /\ rate_limit = 0
    /\ concurrency \in {1, 2}
    /\ dry_run \in BOOLEAN
    /\ rows \in UNION {[1..n -> RowPool] : n \in 1..MaxRows}
    /\ ProcessOrdersEntered
    /\ OthersIdle

\* rows validated so far by the first pass
Validated == Len(results) + Len(validated_orders)

\* first pass of process_orders, one row; an exception out of
\* validate_order_row leaves process_orders
ValidateRow ==
    /\ main_pc = "validate"
    /\ Validated < Len(rows)
    /\ LET i == Validated + 1
           v == validate_order_row(rows[i], RowNum(i))
       IN  IF v.raised
           THEN /\ main_pc' = "raised"
                /\ UNCHANGED <<validated_orders, results>>
           ELSE IF v.ok
           THEN /\ validated_orders' = Append(validated_orders, v.order)
                /\ UNCHANGED <<results, main_pc>>
           ELSE /\ results' = Append(results,
                       OrderResult(RowNum(i), "SKIPPED", "Validation error", None))
                /\ UNCHANGED <<validated_orders, main_pc>>
    /\ UNCHANGED <<cvars, tvars, yvars, xvars, dry_run, rows, seen_keys, next_task, wpc,
                   wtask, symbol_id, trade_id, broker_order_id, futures, collected,
                   called, place_args, impact_returns, place_ok, stamped_by>>

\* end of the first pass: return if nothing is valid, else start the second pass
\* (with concurrency > 1 every order is submitted to the executor)
EndValidation ==
    /\ main_pc = "validate"
    /\ Validated = Len(rows)
    /\ main_pc' = IF validated_orders = <<>> THEN "done" ELSE "execute"
    /\ futures' = [i \in 1..Len(validated_orders) |-> NoFuture]
    /\ called' = [i \in 1..Len(validated_orders) |-> {}]
    /\ place_args' = [i \in 1..Len(validated_orders) |-> {}]
    /\ impact_returns' = [i \in 1..Len(validated_orders) |-> {}]
    /\ place_ok' = [i \in 1..Len(validated_orders) |-> 0]
    /\ UNCHANGED <<cvars, tvars, yvars, xvars, dry_run, rows, validated_orders, results, seen_keys,
                   next_task, wpc, wtask, symbol_id, trade_id, broker_order_id,
                   collected, stamped_by>>

Order(w) == validated_orders[wtask[w]]

\* the APIs invoked for the order of worker w, with one more call recorded
Record(w, api, r) ==
    [called EXCEPT ![wtask[w]] = IF r.calls > 0 THEN @ \cup {api} ELSE @]

\* the threads that have written _last_request_time, after _call_with_retry did
\* r in thread w: _apply_rate_limit writes it before every invocation of func
Stamp(w, r) == IF r.calls > 0 THEN stamped_by \cup {w} ELSE stamped_by

\* a thread starts process_single_order on the next validated order: the main
\* thread in input order, or a pool worker taking the oldest queued task
TakeOrder(w) ==
    /\ main_pc = "execute"
    /\ w \in Running
    /\ wpc[w] = "idle"
    /\ next_task <= Len(validated_orders)
    /\ wtask' = [wtask EXCEPT ![w] = next_task]
    /\ next_task' = next_task + 1
    /\ wpc' = [wpc EXCEPT ![w] = "check"]
    /\ UNCHANGED <<cvars, tvars, yvars, xvars, dry_run, rows, main_pc, validated_orders, results,
                   seen_keys, symbol_id, trade_id, broker_order_id, futures, collected,
                   called, place_args, impact_returns, place_ok, stamped_by>>

\* a slip: the workers of the pool append to `results` themselves
WorkerAppends_Always(conc) == TRUE

\* whether the thread that ran process_single_order appends its result to
\* `results`: only in the sequential loop; in the pool the main thread does
WorkerAppends(conc) == ~(conc > 1)

\* a slip: the exception of an order is caught and no result is made for it
Unexpected_NoResult(order) == NoResult

\* the except clause around process_single_order, in the sequential loop and in
\* the loop over the futures: the FAILED result of the order that raised
Unexpected(order) == OrderResult(order.row_num, "FAILED", "Unexpected error", None)

\* process_single_order ends for worker w, by `return res` or by an exception:
\* the sequential loop appends the result (or the FAILED result of its except
\* clause) at once; in the pool the future is done
Deliver(w, res, raised) ==
    /\ IF ~WorkerAppends(concurrency)
       THEN /\ futures' = [futures EXCEPT ![wtask[w]] =
                             [done |-> TRUE, raised |-> raised, result |-> res]]
            /\ UNCHANGED results
       ELSE /\ results' = Append(results,
                             IF raised THEN Unexpected(Order(w)) ELSE res)
            /\ UNCHANGED futures
    /\ wpc' = [wpc EXCEPT ![w] = "idle"]
    /\ wtask' = [wtask EXCEPT ![w] = 0]
    /\ symbol_id' = [symbol_id EXCEPT ![w] = None]
    /\ trade_id' = [trade_id EXCEPT ![w] = None]
    /\ broker_order_id' = [broker_order_id EXCEPT ![w] = None]

\* a slip: the test is made on a fresh set, not on the one the run shares
IsDuplicate_FreshSet(order, seen) == idempotency_key(order) \in {}

\* `if idem_key in seen_keys`
IsDuplicate(order, seen) == idempotency_key(order) \in seen

\* the idempotency check: `idem_key in seen_keys`, and the SKIPPED return
CheckIdempotency(w) ==
    /\ wpc[w] = "check"
    /\ IF IsDuplicate(Order(w), seen_keys)
       THEN Deliver(w, OrderResult(Order(w).row_num, "SKIPPED", "Duplicate order detected", None), FALSE)
       ELSE /\ wpc' = [wpc EXCEPT ![w] = "add"]
            /\ UNCHANGED <<results, futures, wtask, symbol_id, trade_id, broker_order_id>>
    /\ UNCHANGED <<cvars, tvars, yvars, xvars, dry_run, rows, main_pc, validated_orders, seen_keys,
                   next_task, collected, called, place_args, impact_returns, place_ok,
                   stamped_by>>

\* `seen_keys.add(idem_key)`
AddKey(w) ==
    /\ wpc[w] = "add"
    /\ seen_keys' = seen_keys \cup {idempotency_key(Order(w))}
    /\ wpc' = [wpc EXCEPT ![w] = "resolve"]
    /\ UNCHANGED <<cvars, tvars, yvars, xvars, dry_run, rows, main_pc, validated_orders, results,
                   next_task, wtask, symbol_id, trade_id, broker_order_id, futures,
                   collected, called, place_args, impact_returns, place_ok, stamped_by>>

\* step 1: get_universal_symbol_id, and the FAILED return when it finds none
ResolveSymbol(w, r) ==
    /\ wpc[w] = "resolve"
    /\ LET g == get_universal_symbol_id(Order(w).ticker, Order(w).exchange, r)
       IN  /\ called' = Record(w, "search", r)
           /\ stamped_by' = Stamp(w, r)
           /\ IF g.raised
              THEN Deliver(w, NoResult, TRUE)
              ELSE IF g.id = None \/ g.id = ""
              THEN Deliver(w, OrderResult(Order(w).row_num, "FAILED", "Symbol not found", None), FALSE)
              ELSE /\ symbol_id' = [symbol_id EXCEPT ![w] = g.id]
                   /\ wpc' = [wpc EXCEPT ![w] = "impact"]
                   /\ UNCHANGED <<results, futures, wtask, trade_id, broker_order_id>>
    /\ UNCHANGED <<cvars, tvars, yvars, xvars, dry_run, rows, main_pc, validated_orders, seen_keys,
                   next_task, collected, place_args, impact_returns, place_ok>>

\* a slip: the dry-run test is inverted
StopsBeforePlacing_Inverted(dry) == ~dry

\* `if dry_run:` after the impact check
StopsBeforePlacing(dry) == dry

\* step 2: check_order_impact, the FAILED return, and the dry-run return
CheckImpact(w, r) ==
    /\ wpc[w] = "impact"
    /\ LET c == check_order_impact(r)
       IN  /\ called' = Record(w, "impact", r)
           /\ stamped_by' = Stamp(w, r)
           /\ impact_returns' = [impact_returns EXCEPT ![wtask[w]] =
                               @ \cup {[success |-> c.success, trade_id |-> c.trade_id]}]
           /\ IF ~c.success
              THEN Deliver(w, OrderResult(Order(w).row_num, "FAILED", "Impact check failed", None), FALSE)
              ELSE IF StopsBeforePlacing(dry_run)
              THEN Deliver(w, OrderResult(Order(w).row_num, "VALIDATED", "Dry-run: impact check passed, order not placed", None), FALSE)
              ELSE /\ trade_id' = [trade_id EXCEPT ![w] = c.trade_id]
                   /\ wpc' = [wpc EXCEPT ![w] = "place"]
                   /\ UNCHANGED <<results, futures, wtask, symbol_id, broker_order_id>>
    /\ UNCHANGED <<cvars, tvars, yvars, xvars, dry_run, rows, main_pc, validated_orders, seen_keys,
                   next_task, collected, place_args, place_ok>>

\* a slip: the symbol id is passed where the trade id belongs
PlaceArgument_SymbolId(w) == symbol_id[w]

\* the argument of `snaptrade.place_order(trade_id)`
PlaceArgument(w) == trade_id[w]

\* a slip: the refresh is made for every placed order
Refreshes_Always(account_id) == TRUE

\* `if order.account_id:` before the refresh
Refreshes(account_id) == account_id # ""

\* step 3: place_order, the FAILED return, and the PLACED return of an order
\* without account_id (step 4 is skipped)
PlaceOrder(w, r) ==
    /\ wpc[w] = "place"
    /\ LET p == place_order(PlaceArgument(w), r)
       IN  /\ called' = Record(w, "place", r)
           /\ stamped_by' = Stamp(w, r)
           /\ place_args' = [place_args EXCEPT ![wtask[w]] = @ \cup {PlaceArgument(w)}]
           /\ place_ok' = [place_ok EXCEPT ![wtask[w]] = @ + r.ok_calls]
           /\ IF ~p.success
              THEN Deliver(w, OrderResult(Order(w).row_num, "FAILED", "Order placement failed", None), FALSE)
              ELSE IF Refreshes(Order(w).account_id)
              THEN /\ broker_order_id' = [broker_order_id EXCEPT ![w] = p.broker_order_id]
                   /\ wpc' = [wpc EXCEPT ![w] = "refresh"]
                   /\ UNCHANGED <<results, futures, wtask, symbol_id, trade_id>>
              ELSE Deliver(w, OrderResult(Order(w).row_num, "PLACED", "Order placed successfully", p.broker_order_id), FALSE)
    /\ UNCHANGED <<cvars, tvars, yvars, xvars, dry_run, rows, main_pc, validated_orders, seen_keys,
                   next_task, collected, impact_returns>>

\* step 4: refresh_account, which swallows every exception, and the PLACED return
RefreshAccount(w, r) ==
    /\ wpc[w] = "refresh"
    /\ called' = [Record(w, "refresh", r) EXCEPT ![wtask[w]] =
                    IF r.kind = "raise" THEN @ \cup {"refresh raised"} ELSE @]
    /\ stamped_by' = Stamp(w, r)
    /\ Deliver(w, OrderResult(Order(w).row_num, "PLACED", "Order placed successfully", broker_order_id[w]), FALSE)
    /\ UNCHANGED <<cvars, tvars, yvars, xvars, dry_run, rows, main_pc, validated_orders, seen_keys,
                   next_task, collected, place_args, impact_returns, place_ok>>

\* `for future in as_completed(...)`: main takes a finished future and appends
\* its result, or the FAILED result of the except clause
Collect(i) ==
    /\ main_pc = "execute"
    /\ concurrency > 1
    /\ i \in 1..Len(validated_orders)
    /\ i \notin collected
    /\ futures[i].done
    /\ collected' = collected \cup {i}
    /\ results' = Append(results,
                     IF futures[i].raised
                     THEN Unexpected(validated_orders[i])
                     ELSE futures[i].result)
    /\ UNCHANGED <<cvars, tvars, yvars, xvars, dry_run, rows, main_pc, validated_orders, seen_keys,
                   next_task, wpc, wtask, symbol_id, trade_id, broker_order_id, futures,
                   called, place_args, impact_returns, place_ok, stamped_by>>

\* a slip: the pool is left without waiting for its futures
SecondPassOver_NoWait == TRUE

\* the second pass is over: the sequential loop has gone through
\* validated_orders, or as_completed has yielded every future
SecondPassOver ==
    IF concurrency > 1
    THEN collected = 1..Len(validated_orders)
    ELSE next_task > Len(validated_orders) /\ \A w \in Threads : wpc[w] = "idle"

\* `return results` at the end of the second pass
ReturnResults ==
    /\ main_pc = "execute"
    /\ SecondPassOver
    /\ main_pc' = "done"
    /\ UNCHANGED <<cvars, tvars, yvars, xvars, dry_run, rows, validated_orders, results, seen_keys,
                   next_task, wpc, wtask, symbol_id, trade_id, broker_order_id, futures,
                   collected, called, place_args, impact_returns, place_ok, stamped_by>>

\* OrderResult.to_dict: the row of results.csv; filled_qty is never set
to_dict(result) ==
    [input_row |-> result.row_num, status |-> result.status, reason |-> result.reason,
     broker_order_id |-> IF result.broker_order_id = None THEN "" ELSE result.broker_order_id,
     filled_qty |-> ""]

\* a slip: the results are written as they were appended
SortedByRowNum_AsAppended(res) == res

\* sorted(results, key=lambda r: r.row_num): a stable sort
SortedByRowNum(res) ==
    LET Before(m, n) == res[m].row_num < res[n].row_num
                        \/ (res[m].row_num = res[n].row_num /\ m < n)
        Rank(n) == Cardinality({m \in 1..Len(res) : Before(m, n)}) + 1
    IN  [k \in 1..Len(res) |-> res[CHOOSE n \in 1..Len(res) : Rank(n) = k]]

\* main, step 5: write_results_csv(results, results_path)
WriteResults ==
    /\ main_pc = "done"
    /\ results_file' = [written |-> TRUE,
                         lines |-> [k \in 1..Len(results) |->
                                      to_dict(SortedByRowNum(results)[k])]]
    /\ main_pc' = "written"
    /\ UNCHANGED <<cvars, tvars, yvars, exit_code, dry_run, rows, validated_orders, results,
                   seen_keys, next_task, wpc, wtask, symbol_id, trade_id, broker_order_id,
                   futures, collected, called, place_args, impact_returns, place_ok,
                   stamped_by>>

\* `failed_count = sum(1 for r in results if r.status == 'FAILED')`
FailedCount(res) == Cardinality({k \in 1..Len(res) : res[k].status = "FAILED"})

\* main, step 7: `return 1` if any order failed, else `return 0`, and
\* `sys.exit(exit_code)`
MainReturns ==
    /\ main_pc = "written"
    /\ exit_code' = IF FailedCount(results) > 0 THEN 1 ELSE 0
    /\ main_pc' = "exited"
    /\ UNCHANGED <<cvars, tvars, yvars, results_file, dry_run, rows, validated_orders, results,
                   seen_keys, next_task, wpc, wtask, symbol_id, trade_id, broker_order_id,
                   futures, collected, called, place_args, impact_returns, place_ok,
                   stamped_by>>

\* the exception that left process_orders leaves main: `except Exception` of
\* the script, `sys.exit(1)`
MainRaises ==
    /\ main_pc = "raised"
    /\ exit_code' = 1
    /\ main_pc' = "exited"
    /\ UNCHANGED <<cvars, tvars, yvars, results_file, dry_run, rows, validated_orders, results,
                   seen_keys, next_task, wpc, wtask, symbol_id, trade_id, broker_order_id,
                   futures, collected, called, place_args, impact_returns, place_ok,
                   stamped_by>>

Next ==
    \/ ValidateRow
    \/ EndValidation
    \/ \E w \in Threads : TakeOrder(w)
    \/ \E w \in Threads : CheckIdempotency(w)
    \/ \E w \in Threads : AddKey(w)
    \/ \E w \in Threads, r \in SearchCalls[max_retries] : ResolveSymbol(w, r)
    \/ \E w \in Threads, r \in ImpactCalls[max_retries] : CheckImpact(w, r)
    \/ \E w \in Threads, r \in PlaceCalls[max_retries] : PlaceOrder(w, r)
    \/ \E w \in Threads, r \in RefreshCalls[max_retries] : RefreshAccount(w, r)
    \/ \E i \in 1..MaxRows : Collect(i)
    \/ ReturnResults
    \/ WriteResults
    \/ MainReturns
    \/ MainRaises

Spec == Init /\ [][Next]_vars

(***************************************************************************)
(* ValidateSpec: validate_order_row on one loaded row, whatever its fields *)
(***************************************************************************)
\* the rows explored, field by field; None is a column the line did not have
FieldRows ==
    [account_id : {"U1", None},
     ticker : {"aapl", ""},
     side : {"BUY", " buy", "sell", "HOLD", ""},
     quantity : {"10", "0", "-5", "NaN", "abc"},
     order_type : {"MARKET", "limit", "STOP", "STOP_LIMIT", "FOO"},
     limit_price : {"", "150.50", "0", "NaN"},
     stop_price : {"", "5", "0"},
     time_in_force : {"", " ", "gtc", "IOC", None},
     exchange : {"", "NASDAQ", None}]

\* process_orders is entered with one loaded row
ValidateInit ==
    /\ ManagerInit
    /\ max_retries = 1
    /\ rate_limit = 0
    /\ concurrency = 1
    /\ dry_run = TRUE
    /\ rows \in {<<row>> : row \in FieldRows}
    /\ ProcessOrdersEntered
    /\ OthersIdle

ValidateSpec == ValidateInit /\ [][ValidateRow]_vars

(***************************************************************************)
(* KeySpec: OrderRow.idempotency_key on two rows, in a sequential dry run  *)
(* whose symbol searches find nothing                                      *)
(***************************************************************************)
\* a market order that gives its unused prices as 0
RowZero ==
    [account_id |-> "U1", ticker |-> "AAPL", side |-> "BUY", quantity |-> "10",
     order_type |-> "MARKET", limit_price |-> "0", stop_price |-> "0",
     time_in_force |-> "", exchange |-> ""]

\* the second row, field by field
KeyRows ==
    [account_id : {"U1", ""},
     ticker : {"aapl", "msft"},
     side : {" buy", "sell"},
     quantity : {"10", "10.0", "5"},
     order_type : {"market", "LIMIT"},
     limit_price : {"", "0", "150.50"},
     stop_price : {"", "0", "5"},
     time_in_force : {"", "day", "gtc"},
     exchange : {"", "NASDAQ"}]

KeyInit ==
    /\ ManagerInit
    /\ max_retries = 1
    /\ rate_limit = 0
    /\ concurrency = 1
    /\ dry_run = TRUE
    /\ rows \in {<<a, b>> : a \in {RowA, RowL, RowZero}, b \in KeyRows}
    /\ ProcessOrdersEntered
    /\ OthersIdle

\* the quotes search answers at once, with no symbol
NothingFound == Returned(Ok(<<>>), 1)

KeyNext ==
    \/ ValidateRow
    \/ EndValidation
    \/ \E w \in Threads : TakeOrder(w)
    \/ \E w \in Threads : CheckIdempotency(w)
    \/ \E w \in Threads : AddKey(w)
    \/ \E w \in Threads : ResolveSymbol(w, NothingFound)
    \/ ReturnResults

KeySpec == KeyInit /\ [][KeyNext]_vars

(***************************************************************************)
(* SymbolSpec: one call of get_universal_symbol_id                         *)
(***************************************************************************)
\* the arguments: the ticker of the order and its exchange, None when the row
\* gives none
LookupExchanges == {None, "NASDAQ", "nyse"}

SymbolInit ==
    /\ ManagerInit
    /\ max_retries \in OrderRetries
    /\ rate_limit = 0
    /\ concurrency = 1
    /\ OrdersIdle
    /\ Test2Idle
    /\ ScriptIdle
    /\ lookup \in [ticker : {"AAPL", "aapl"}, exchange : LookupExchanges,
                    call : SearchCalls[max_retries], done : {FALSE},
                    symbols : {<<>>}, raised : {FALSE}, id : {None}]

\* get_universal_symbol_id(ticker, exchange), lookup.call being what the
\* _call_with_retry of its search does
GetSymbolId ==
    /\ ~lookup.done
    /\ LET g == get_universal_symbol_id(lookup.ticker, lookup.exchange, lookup.call)
       IN  lookup' = [lookup EXCEPT !.done = TRUE,
                                    !.symbols = search_symbols(lookup.ticker, lookup.exchange,
                                                               lookup.call),
                                    !.raised = g.raised,
                                    !.id = g.id]
    /\ UNCHANGED <<cvars, tvars, pvars, exit_code, t2vars, svars>>

SymbolSpec == SymbolInit /\ [][GetSymbolId]_vars

(***************************************************************************)
(* src/test2.py: fetch_snaptrade_orders, main and place_to_tws             *)
(*                                                                         *)
(* The values of an upstream order are JSON strings and numbers; a number  *)
(* is written as its text ("0", "0.5", "2"), an absent key or null as None.*)
(* The four SNAPTRADE_ values of .env are present.                         *)
(***************************************************************************)
VALID_SIDES == {"BUY", "SELL"}

\* TYPE_MAP.get(key): None for a key the map lacks
TYPE_MAP(key) ==
    CASE key = "MARKET" -> "MKT"
      [] key = "LIMIT" -> "LMT"
      [] key = "MKT" -> "MKT"
      [] key = "LMT" -> "LMT"
      [] OTHER -> None

\* Python's truth test on a value of an upstream order: None, "" and 0 are false
Falsy(v) == v \in {None, "", "0"}

\* Python's `a or b`
Or(a, b) == IF Falsy(a) THEN b ELSE a

\* int(qty) on the numbers that occur: the fraction is cut off
IntOf(qty) ==
    CASE qty = "0.5" -> 0
      [] qty = "2" -> 2
      [] qty = "10" -> 10
      [] OTHER -> 0

\* (o.get("legs") or [{}])[0].get("symbol")
FirstLegSymbol(o) == IF o.legs = <<>> THEN None ELSE o.legs[1].symbol

\* one turn of the loop "for o in resp": the row appended, or the order skipped.
\* The field order is not a column of the DataFrame: it records the position in
\* resp of the upstream order the row was made from.
MapOrder(o, k) ==
    LET sym == Upper(Or(Or(o.symbol, FirstLegSymbol(o)), ""))
        side == Upper(Or(Or(o.action, o.order_type), ""))
        qty == Or(o.quantity, o.filled_quantity)
        otype == TYPE_MAP(Upper(Or(Or(o.type, o.order_sub_type), "")))
        tif == Upper(Or(o.time_in_force, "DAY"))
        limit_px == Or(o.limit_price, o.limit)
    IN  IF Falsy(sym) \/ side \notin VALID_SIDES \/ Falsy(qty) \/ otype \notin {"MKT", "LMT"}
        THEN <<>>
        ELSE <<[symbol |-> sym, side |-> side, quantity |-> IntOf(qty),
                order_type |-> otype,
                limit_price |-> IF Falsy(limit_px) THEN None ELSE limit_px,
                tif |-> tif, exchange |-> "SMART", currency |-> "USD", order |-> k]>>

RECURSIVE MapOrders(_, _)
MapOrders(resp, k) ==
    IF k > Len(resp) THEN <<>> ELSE MapOrder(resp[k], k) \o MapOrders(resp, k + 1)

\* the orders fetch_snaptrade_orders maps: the recent ones, or all of them when
\* there is no recent one or --all-orders was given
Resp(recent_first, api) ==
    IF recent_first /\ api.recent # <<>> THEN api.recent ELSE api.orders

\* fetch_snaptrade_orders: SystemExit, or the rows of the DataFrame
fetch_snaptrade_orders(account_index, recent_first, api) ==
    LET resp == Resp(recent_first, api)
        mapped == MapOrders(resp, 1)
    IN  IF api.accounts = 0 THEN [exit |-> TRUE, rows |-> <<>>]
        ELSE IF account_index < 0 \/ account_index >= api.accounts
        THEN [exit |-> TRUE, rows |-> <<>>]
        ELSE IF resp = <<>> THEN [exit |-> TRUE, rows |-> <<>>]
        ELSE IF mapped = <<>> THEN [exit |-> TRUE, rows |-> <<>>]
        ELSE [exit |-> FALSE, rows |-> mapped]

\* upstream orders: every combination of the values the mapping tells apart
UpstreamOrders ==
    [symbol : {None, "aapl"}, legs : {<<>>, <<[symbol |-> "spy"]>>},
     action : {None, "buy", "HOLD"}, order_type : {None, "SELL"},
     quantity : {None, "0", "0.5", "2"}, filled_quantity : {None, "10"},
     type : {None, "market", "STOP"}, order_sub_type : {None, "lmt"},
     time_in_force : {None, "gtc"}, limit_price : {None, "150.50"},
     limit : {None, "5"}]

UpMarket ==
    [symbol |-> "aapl", legs |-> <<>>, action |-> "buy", order_type |-> None,
     quantity |-> "2", filled_quantity |-> None, type |-> "market",
     order_sub_type |-> None, time_in_force |-> None, limit_price |-> None,
     limit |-> None]
UpLimit ==
    [symbol |-> "msft", legs |-> <<>>, action |-> "sell", order_type |-> None,
     quantity |-> "10", filled_quantity |-> None, type |-> "limit",
     order_sub_type |-> None, time_in_force |-> "gtc", limit_price |-> "150.50",
     limit |-> None]
\* an option or multi-leg order: the symbol is inside legs only
UpLegs ==
    [symbol |-> None, legs |-> <<[symbol |-> "spy"], [symbol |-> "aapl"]>>,
     action |-> "buy", order_type |-> None, quantity |-> "2",
     filled_quantity |-> None, type |-> "market", order_sub_type |-> None,
     time_in_force |-> None, limit_price |-> None, limit |-> None]
UpNonsense ==
    [symbol |-> "aapl", legs |-> <<>>, action |-> "HOLD", order_type |-> None,
     quantity |-> "0", filled_quantity |-> None, type |-> "STOP",
     order_sub_type |-> None, time_in_force |-> None, limit_price |-> None,
     limit |-> None]
UpstreamPool == {UpMarket, UpLimit, UpLegs, UpNonsense}

\* what the orders endpoint answers: one order of any shape, or up to MaxUpstream
\* orders of the pool
UpstreamResponses ==
    {<<o>> : o \in UpstreamOrders}
        \cup UNION {[1..n -> UpstreamPool] : n \in 0..MaxUpstream}

Test2Init ==
    /\ ManagerInit
    /\ max_retries = 1
    /\ rate_limit = 0
    /\ concurrency = 1
    /\ OrdersIdle
    /\ LookupIdle
    /\ ScriptIdle
    /\ t2_args \in [live : BOOLEAN, account_index : {0, 1}, recent_first : BOOLEAN]
    /\ t2_api \in [accounts : {0, 1}, recent : {<<>>, <<UpLimit>>},
                   orders : UpstreamResponses]
    /\ t2_pc = "start"
    /\ df = <<>>
    /\ ib = [connected |-> FALSE, opened |-> FALSE]
    /\ t2_i = 1
    /\ transmitted = <<>>

\* main: df = fetch_snaptrade_orders(...) and the print of the mapped orders; a
\* SystemExit with a message ends the script with exit code 1
T2Fetch ==
    /\ t2_pc = "start"
    /\ LET f == fetch_snaptrade_orders(t2_args.account_index, t2_args.recent_first, t2_api)
       IN  IF f.exit
           THEN /\ t2_pc' = "exited"
                /\ exit_code' = 1
                /\ df' = df
           ELSE /\ t2_pc' = "fetched"
                /\ exit_code' = exit_code
                /\ df' = f.rows
    /\ UNCHANGED <<cvars, tvars, pvars, lookup, svars, t2_args, t2_api, ib, t2_i, transmitted>>

DryRun_Never(live) == FALSE
\* main: if not args.live
DryRun(live) == ~live

\* main: the dry run ends with sys.exit(0)
T2DryRunExit ==
    /\ t2_pc = "fetched"
    /\ DryRun(t2_args.live)
    /\ t2_pc' = "exited"
    /\ exit_code' = 0
    /\ UNCHANGED <<cvars, tvars, pvars, lookup, svars, t2_args, t2_api, df, ib, t2_i, transmitted>>

\* main calls place_to_tws; ib.connect is outside the try, so a connection that
\* fails leaves the script with a traceback
T2Connect(ok) ==
    /\ t2_pc = "fetched"
    /\ ~DryRun(t2_args.live)
    /\ IF ok
       THEN /\ ib' = [connected |-> TRUE, opened |-> TRUE]
            /\ t2_pc' = "loop"
            /\ exit_code' = exit_code
       ELSE /\ ib' = ib
            /\ t2_pc' = "exited"
            /\ exit_code' = 1
    /\ t2_i' = 1
    /\ UNCHANGED <<cvars, tvars, pvars, lookup, svars, t2_args, t2_api, df, transmitted>>

\* place_to_tws: t = ib.placeOrder(c, o) for the next row
T2PlaceOrder(ok) ==
    /\ t2_pc = "loop"
    /\ t2_i <= Len(df)
    /\ IF ok
       THEN /\ transmitted' = Append(transmitted, df[t2_i])
            /\ t2_pc' = "waiting"
       ELSE /\ transmitted' = transmitted
            /\ t2_pc' = "raising"
    /\ UNCHANGED <<cvars, tvars, pvars, exit_code, lookup, svars, t2_args, t2_api, df, ib, t2_i>>

\* place_to_tws: while not t.isDone(): ib.waitOnUpdate(timeout=1), until the trade
\* is done or waitOnUpdate raises; then the print and the sleep
T2TradeDone(ok) ==
    /\ t2_pc = "waiting"
    /\ IF ok
       THEN /\ t2_i' = t2_i + 1
            /\ t2_pc' = "loop"
       ELSE /\ t2_i' = t2_i
            /\ t2_pc' = "raising"
    /\ UNCHANGED <<cvars, tvars, pvars, exit_code, lookup, svars, t2_args, t2_api, df, ib, transmitted>>

\* a slip: ib.disconnect() follows the loop without try/finally, so an exception
\* passes it by
T2Disconnect_NoFinally ==
    /\ \/ t2_pc = "loop" /\ t2_i > Len(df)
       \/ t2_pc = "raising"
    /\ ib' = IF t2_pc = "raising" THEN ib ELSE [ib EXCEPT !.connected = FALSE]
    /\ t2_pc' = "exited"
    /\ exit_code' = IF t2_pc = "raising" THEN 1 ELSE 0
    /\ UNCHANGED <<cvars, tvars, pvars, lookup, svars, t2_args, t2_api, df, t2_i, transmitted>>

\* place_to_tws: finally: ib.disconnect(), after the last row or with an exception
\* on its way out; then the script ends
T2Disconnect ==
    /\ \/ t2_pc = "loop" /\ t2_i > Len(df)
       \/ t2_pc = "raising"
    /\ ib' = [ib EXCEPT !.connected = FALSE]
    /\ t2_pc' = "exited"
    /\ exit_code' = IF t2_pc = "raising" THEN 1 ELSE 0
    /\ UNCHANGED <<cvars, tvars, pvars, lookup, svars, t2_args, t2_api, df, t2_i, transmitted>>

Test2Next ==
    \/ T2Fetch
    \/ T2DryRunExit
    \/ \E ok \in BOOLEAN : T2Connect(ok)
    \/ \E ok \in BOOLEAN : T2PlaceOrder(ok)
    \/ \E ok \in BOOLEAN : T2TradeDone(ok)
    \/ T2Disconnect

Test2Spec == Test2Init /\ [][Test2Next]_vars

(***************************************************************************)
(* src/script.py: search_symbol, place_order_from_csv and the loop of main *)
(*                                                                         *)
(* main is modelled from step 5 on: the credentials were valid, the        *)
(* connection test passed, an account was found and read_orders_from_csv   *)
(* returned at least one order.                                            *)
(***************************************************************************)
\* orders as read_orders_from_csv returns them
CsvMarket == [symbol |-> "AAPL", action |-> "BUY", quantity |-> 10, order_type |-> "MKT"]
CsvLimit == [symbol |-> "msft", action |-> "SELL", quantity |-> 5, order_type |-> "LMT"]
CsvOrders == {CsvMarket, CsvLimit}

\* what symbol_search_user_account does: it raises, or it answers with a body
SymbolSearches ==
    {[raised |-> TRUE, body |-> <<>>]}
        \cup {[raised |-> FALSE, body |-> b] :
                b \in {<<>>,
                       <<[symbol |-> "AAPL", id |-> "S1"]>>,
                       <<[symbol |-> "AAPLW", id |-> "S3"], [symbol |-> "aapl", id |-> "S1"]>>,
                       <<[symbol |-> "AAPL", id |-> None]>>,
                       <<[symbol |-> "AAPL", id |-> None], [symbol |-> "MSFT", id |-> "S5"]>>,
                       <<[symbol |-> "MSFTX", id |-> "S7"]>>}}

\* search_symbol: the id of the first exact match that has one, else the id of the
\* first result, else None; None too when the search raises
search_symbol(symbol, response) ==
    LET body == response.body
        exact == {k \in DOMAIN body :
                    Upper(body[k].symbol) = Upper(symbol) /\ body[k].id # None}
    IN  IF response.raised THEN None
        ELSE IF body = <<>> THEN None
        ELSE IF exact # {} THEN body[CHOOSE k \in exact : \A j \in exact : k <= j].id
        ELSE body[1].id

\* place_order_from_csv: order_type_map.get(order_type, 'Market')
order_type_map(order_type) ==
    CASE order_type \in {"MKT", "MARKET"} -> "Market"
      [] order_type \in {"LMT", "LIMIT"} -> "Limit"
      [] order_type \in {"STP", "STOP"} -> "Stop"
      [] OTHER -> "Market"

ScriptInit ==
    /\ ManagerInit
    /\ max_retries = 1
    /\ rate_limit = 0
    /\ concurrency = 1
    /\ OrdersIdle
    /\ LookupIdle
    /\ Test2Idle
    /\ DRY_RUN \in BOOLEAN
    /\ csv_orders \in UNION {[1..n -> CsvOrders] : n \in 1..MaxCsvOrders}
    /\ s_pc = "call"
    /\ s_idx = 1
    /\ s_symbol_id = None
    /\ s_found = <<>>
    /\ s_returns = <<>>
    /\ force_orders = <<>>

DryRunReturns_Never(dry) == FALSE
\* place_order_from_csv: if DRY_RUN
DryRunReturns(dry) == dry

\* main calls place_order_from_csv for the next order: the symbol search, then
\* return False without an id, return True in a dry run, else on to the placing
SSearch(response) ==
    /\ s_pc = "call"
    /\ s_idx <= Len(csv_orders)
    /\ LET id == search_symbol(csv_orders[s_idx].symbol, response)
       IN  /\ s_symbol_id' = id
           /\ s_found' = Append(s_found, id)
           /\ IF id = None
              THEN /\ s_returns' = Append(s_returns, FALSE)
                   /\ s_idx' = s_idx + 1
                   /\ s_pc' = "call"
              ELSE IF DryRunReturns(DRY_RUN)
              THEN /\ s_returns' = Append(s_returns, TRUE)
                   /\ s_idx' = s_idx + 1
                   /\ s_pc' = "call"
              ELSE /\ s_returns' = s_returns
                   /\ s_idx' = s_idx
                   /\ s_pc' = "place"
    /\ UNCHANGED <<cvars, tvars, pvars, exit_code, lookup, t2vars, DRY_RUN, csv_orders,
                   force_orders>>

\* place_order_from_csv: trading.place_force_order; True for an answer with a
\* body, False for an empty one and for an exception
SPlace(outcome) ==
    /\ s_pc = "place"
    /\ force_orders' = Append(force_orders,
                              [universal_symbol_id |-> s_symbol_id,
                               action |-> csv_orders[s_idx].action,
                               order_type |-> order_type_map(csv_orders[s_idx].order_type),
                               units |-> csv_orders[s_idx].quantity])
    /\ s_returns' = Append(s_returns, outcome = "body")
    /\ s_idx' = s_idx + 1
    /\ s_pc' = "call"
    /\ UNCHANGED <<cvars, tvars, pvars, exit_code, lookup, t2vars, DRY_RUN, csv_orders,
                   s_symbol_id, s_found>>

\* main: the loop is over, the summary is printed, return 0
SMainReturns ==
    /\ s_pc = "call"
    /\ s_idx > Len(csv_orders)
    /\ s_pc' = "exited"
    /\ exit_code' = 0
    /\ UNCHANGED <<cvars, tvars, pvars, lookup, t2vars, DRY_RUN, csv_orders, s_idx,
                   s_symbol_id, s_found, s_returns, force_orders>>

ScriptNext ==
    \/ \E response \in SymbolSearches : SSearch(response)
    \/ \E outcome \in {"body", "empty", "ApiException", "Exception"} : SPlace(outcome)
    \/ SMainReturns

ScriptSpec == ScriptInit /\ [][ScriptNext]_vars

(***************************************************************************)
(* Claims about process_orders and process_single_order                    *)
(***************************************************************************)
Orders == 1..Len(validated_orders)

\* the results appended for validated order i
ResultsOf(i) ==
    {results[k] : k \in {n \in 1..Len(results) : results[n].row_num = validated_orders[i].row_num}}

\* validated order i has its final result
Finished(i) == ResultsOf(i) # {}

\* a thread is inside process_single_order for order i, past the idempotency check
PastCheck(i) ==
    \E w \in Threads : wtask[w] = i /\ wpc[w] \in {"add", "resolve", "impact", "place", "refresh"}

SameKey(i, j) == idempotency_key(validated_orders[i]) = idempotency_key(validated_orders[j])

\* the impact check of order i succeeded (which it does only after the symbol
\* was resolved)
ImpactPassed(i) == \E x \in impact_returns[i] : x.success

\* C1: with dry_run, sequential or parallel, place_order is never invoked, the
\* place API is never called, no result is PLACED, and every order whose symbol
\* resolution and impact check succeeded ends VALIDATED.
C1_DryRunNeverPlaces ==
    dry_run =>
        /\ \A w \in Threads : wpc[w] \notin {"place", "refresh"}
        /\ \A k \in 1..Len(results) : results[k].status # "PLACED"
        /\ \A i \in DOMAIN futures : futures[i].result.status # "PLACED"
        /\ \A i \in DOMAIN place_args :
              /\ place_args[i] = {}
              /\ place_ok[i] = 0
              /\ "place" \notin called[i]
              /\ "refresh" \notin called[i]
              /\ ImpactPassed(i) =>
                    /\ futures[i].done \/ Finished(i)
                    /\ futures[i].done => futures[i].result.status = "VALIDATED"
                    /\ \A res \in ResultsOf(i) : res.status = "VALIDATED"

\* a finished parallel dry run with two validated orders
C1_Witness ==
    /\ dry_run
    /\ concurrency > 1
    /\ main_pc = "done"
    /\ Len(validated_orders) = 2
    /\ \A i \in Orders : ImpactPassed(i) /\ \E res \in ResultsOf(i) : res.status = "VALIDATED"

\* C2: place_order is invoked for an order only with the non-empty trade_id
\* that the one impact check of that order returned with success; an order
\* whose impact check failed, or returned no trade_id, never has place_order
\* invoked and ends FAILED.
C2_TwoPhase ==
    \A i \in DOMAIN place_args :
        /\ Cardinality(impact_returns[i]) <= 1
        /\ \A x \in impact_returns[i] : x.success <=> x.trade_id \notin {None, ""}
        /\ place_args[i] \subseteq {x.trade_id : x \in {y \in impact_returns[i] : y.success}}
        /\ "place" \in called[i] => place_args[i] # {}
        /\ \A w \in Threads :
              (wtask[w] = i /\ wpc[w] \in {"place", "refresh"}) => ImpactPassed(i)
        /\ (\E x \in impact_returns[i] : ~x.success) =>
              /\ place_args[i] = {}
              /\ "place" \notin called[i]
              /\ futures[i].done \/ Finished(i)
              /\ futures[i].done => futures[i].result.status = "FAILED"
              /\ \A res \in ResultsOf(i) : res.status = "FAILED"

\* an order placed with the trade_id of its impact check, next to one whose
\* impact check failed
C2_Witness ==
    /\ Len(validated_orders) = 2
    /\ main_pc = "done"
    /\ impact_returns[1] = {[success |-> TRUE, trade_id |-> "T1"]}
    /\ place_args[1] = {"T1"}
    /\ "place" \in called[1]
    /\ \E res \in ResultsOf(1) : res.status = "PLACED"
    /\ impact_returns[2] = {[success |-> FALSE, trade_id |-> None]}
    /\ \E res \in ResultsOf(2) : res.status = "FAILED"

\* C3: in a sequential run, an order with the key of an earlier order makes no
\* API call, never gets past the idempotency check and ends SKIPPED, whatever
\* became of the first; the first order with a key is never SKIPPED.
C3_SequentialDedup ==
    concurrency <= 1 =>
        \A j \in DOMAIN called :
            IF \E i \in 1..(j - 1) : SameKey(i, j)
            THEN /\ called[j] = {}
                 /\ place_args[j] = {}
                 /\ impact_returns[j] = {}
                 /\ ~PastCheck(j)
                 /\ \A res \in ResultsOf(j) : res.status = "SKIPPED"
            ELSE \A res \in ResultsOf(j) : res.status # "SKIPPED"

\* a duplicate skipped after the first order with its key had FAILED
C3_Witness ==
    /\ concurrency <= 1
    /\ main_pc = "done"
    /\ Len(validated_orders) = 2
    /\ SameKey(1, 2)
    /\ \E res \in ResultsOf(1) : res.status = "FAILED"
    /\ \E res \in ResultsOf(2) : res.status = "SKIPPED"
    /\ called[2] = {}

\* C4: in a parallel run at most one order per idempotency key passes the
\* membership check on seen_keys and reaches the impact check or placement.
C4_ParallelDedup ==
    concurrency > 1 =>
        \A i \in DOMAIN called : \A j \in DOMAIN called :
            (i < j /\ SameKey(i, j))
                => ~(/\ called[i] \cap {"impact", "place"} # {}
                     /\ called[j] \cap {"impact", "place"} # {})

(***************************************************************************)
(* Claims about _call_with_retry and _apply_rate_limit                     *)
(***************************************************************************)
InCall(t) == tpc[t] \in {"loop", "rate_limit", "rate_sleep", "stamp", "in_call", "backoff"}

\* how far a thread inside _call_with_retry is from the end of an iteration
PhaseRank(t) ==
    CASE tpc[t] = "loop" -> 5
      [] tpc[t] = "rate_limit" -> 4
      [] tpc[t] = "rate_sleep" -> 3
      [] tpc[t] = "stamp" -> 2
      [] tpc[t] = "in_call" -> 1
      [] OTHER -> 0

\* a bound on the steps a thread has left inside _call_with_retry
StepsLeft(t) == 6 * (max_retries + 1 - attempt[t]) + PhaseRank(t)

\* an ApiException with a 4xx status other than 429
IsClientError(e) ==
    e.cls = "ApiException" /\ e.hasStatus /\ e.status \in 400..499 /\ e.status # 429

\* C5: _call_with_retry always terminates: func is invoked at most
\* max_retries + 1 times, every sleep is finite, and every step a thread takes
\* inside the call either ends the call (return or raise) or lowers a bound,
\* never negative, on the steps it has left.
C5_RetryTerminates ==
    /\ [](\A t \in Threads :
            /\ invocations[t] <= Max(max_retries + 1, 0)
            /\ sleep_left[t] <= (2 ^ Max(max_retries, 0)) * TicksPerSec
            /\ InCall(t) => StepsLeft(t) >= 0)
    /\ [][\A t \in Threads :
            (InCall(t) /\ tpc'[t] # tpc[t])
                => \/ tpc'[t] \in {"returned", "raised"}
                   \/ StepsLeft(t)' < StepsLeft(t)]_vars

\* a call that used every attempt it had, more than one, and raised
C5_Witness ==
    /\ max_retries >= 1
    /\ tpc[1] = "raised"
    /\ invocations[1] = max_retries + 1

\* C6: a 4xx status other than 429 is raised at once: the thread is out of
\* the loop, the failed invocation was the last one, and no backoff wait was
\* made for it, whatever the number of attempts left.
C6_NoRetryOnClientError ==
    \A t \in Threads :
        IsClientError(last_exception[t])
            => /\ tpc[t] = "raised"
               /\ invocations[t] = attempt[t] + 1
               /\ Len(waits[t]) = attempt[t]
               /\ sleep_left[t] = 0

\* a client error on the first attempt, with retries left
C6_Witness ==
    /\ max_retries >= 1
    /\ attempt[1] = 0
    /\ tpc[1] = "raised"
    /\ IsClientError(last_exception[1])

\* C7: failures that are not 4xx client errors are retried while attempts
\* remain, and a successful attempt ends the call with that attempt's result:
\* the call raises only on a client error or on its last attempt, and it
\* returns exactly the value the invocation it made last returned.
C7_RetryThenReturn ==
    \A t \in Threads :
        /\ tpc[t] = "raised"
              => IsClientError(last_exception[t]) \/ attempt[t] >= max_retries
        /\ api_value[t] # None
              => /\ tpc[t] = "returned"
                 /\ retval[t] = api_value[t]
                 /\ invocations[t] = attempt[t] + 1
        /\ (tpc[t] = "returned" /\ invocations[t] > 0) => api_value[t] # None

\* the third attempt succeeds after a 429 and a 5xx
C7_Witness ==
    /\ tpc[1] = "returned"
    /\ attempt[1] = 2
    /\ last_exception[1] = ApiException(500)
    /\ retval[1] = "r2"

\* C8: the backoff waits of one call are 1, 2, 4, ... seconds in that order, one
\* before every repeated invocation, the sleep lasts that many seconds, and in
\* a sequential run the rate limiter adds no wait of its own before a repeated
\* invocation (the backoff is never shorter than min_gap).
C8_ExponentialBackoff ==
    \A t \in Threads :
        /\ \A i \in 1..Len(waits[t]) : waits[t][i] = 2 ^ (i - 1)
        /\ invocations[t] <= Len(waits[t]) + 1
        /\ attempt[t] <= Len(waits[t])
        /\ tpc[t] = "backoff" => sleep_left[t] <= waits[t][Len(waits[t])] * TicksPerSec
        /\ (concurrency <= 1 /\ tpc[t] = "rate_sleep") => attempt[t] = 0

\* a call that is in its third invocation, after waits of 1 s and 2 s
C8_Witness ==
    /\ tpc[1] = "in_call"
    /\ invocations[1] = 3
    /\ waits[1] = <<1, 2>>

\* C9: in a sequential run with rate_limit = N > 0 two consecutive API calls
\* start at least 1/N seconds apart (so a window of one second that is open at
\* one end holds at most N starts).
C9_SequentialRateLimit ==
    (concurrency <= 1 /\ rate_limit > 0) => last_gap * rate_limit >= TicksPerSec

\* the limiter slept and the next call started exactly 1/N s after the last
C9_Witness ==
    /\ concurrency <= 1
    /\ rate_limit > 0
    /\ MinGap < Horizon
    /\ begun >= 2
    /\ tpc[1] = "in_call"
    /\ last_gap = MinGap

\* C10: in a thread-pool run with rate_limit = N > 0 no two API calls of the
\* workers that share the manager start less than 1/N seconds apart.
C10_ParallelRateLimit ==
    (concurrency > 1 /\ rate_limit > 0) => last_gap * rate_limit >= TicksPerSec

(***************************************************************************)
(* Claims about the report, the exit code and the order of the pipeline    *)
(***************************************************************************)
\* process_orders is over, by `return results` or by an exception
ProcessOrdersOver == main_pc \in {"done", "written", "raised", "exited"}

\* C11: when process_orders is over, the results hold exactly one OrderResult
\* for each loaded row number, and every status is one of SKIPPED, VALIDATED,
\* PLACED, FAILED.
C11_PerRowReport ==
    ProcessOrdersOver =>
        /\ \A i \in 1..Len(rows) :
              Cardinality({k \in 1..Len(results) : results[k].row_num = RowNum(i)}) = 1
        /\ \A k \in 1..Len(results) :
              /\ results[k].status \in {"SKIPPED", "VALIDATED", "PLACED", "FAILED"}
              /\ results[k].row_num \in {RowNum(i) : i \in 1..Len(rows)}

\* C12: the run that loaded at least one row exits with code 1 if and only if
\* some OrderResult is FAILED, and with 0 otherwise; rows with a validation
\* error do not make the exit code non-zero.
C12_ExitCode ==
    exit_code # NoExit =>
        /\ exit_code \in {0, 1}
        /\ exit_code = 1 <=> FailedCount(results) > 0

\* C13, as stated: in a parallel run nothing but seen_keys is written by more
\* than one worker; so self._last_request_time has at most one writer.
C13_OnlySeenKeysShared ==
    concurrency > 1 => Cardinality(stamped_by) <= 1

\* C13, amended: in a parallel run a step of a worker inside
\* process_single_order writes, besides seen_keys and the manager's
\* _last_request_time, only its own locals and the record and future of its
\* own order: never another worker's locals, another order's record or
\* future, `results`, the validated orders or the configuration.
C13_SharedState ==
    [][concurrency > 1 =>
        \A w \in Threads :
            (wpc[w] # "idle" /\ wpc'[w] # wpc[w]) =>
                /\ \A v \in Threads \ {w} :
                      /\ wpc'[v] = wpc[v]
                      /\ wtask'[v] = wtask[v]
                      /\ symbol_id'[v] = symbol_id[v]
                      /\ trade_id'[v] = trade_id[v]
                      /\ broker_order_id'[v] = broker_order_id[v]
                /\ \A j \in DOMAIN futures \ {wtask[w]} :
                      /\ futures'[j] = futures[j]
                      /\ called'[j] = called[j]
                      /\ place_args'[j] = place_args[j]
                      /\ impact_returns'[j] = impact_returns[j]
                      /\ place_ok'[j] = place_ok[j]
                /\ UNCHANGED <<results, validated_orders, rows, dry_run, cvars, collected,
                               main_pc, next_task, xvars>>]_vars

\* two workers have each added a key to seen_keys and written
\* _last_request_time
C13_Witness ==
    /\ concurrency > 1
    /\ stamped_by = {1, 2}
    /\ Cardinality(seen_keys) = 2
    /\ \A w \in Threads : wpc[w] = "impact"

\* C14: no API call is made, and no worker runs, before every loaded row is
\* validated; for each order the key is in seen_keys before the search, the
\* search precedes the impact check, which precedes the placement, which
\* precedes the refresh; and results.csv is written only when every validated
\* order has its final result and no worker runs.
C14_PipelineOrder ==
    /\ [](/\ Validated < Len(rows) =>
                /\ \A w \in Threads : wpc[w] = "idle"
                /\ stamped_by = {}
                /\ called = <<>>
          /\ \A i \in DOMAIN called :
                /\ called[i] # {} => idempotency_key(validated_orders[i]) \in seen_keys
                /\ "impact" \in called[i] => "search" \in called[i]
                /\ "place" \in called[i] => "impact" \in called[i]
                /\ "refresh" \in called[i] => "place" \in called[i]
          /\ results_file.written =>
                /\ \A i \in Orders : Finished(i)
                /\ \A w \in Threads : wpc[w] = "idle"
                /\ Len(results_file.lines) = Len(rows))
    /\ [][\A i \in DOMAIN called \cap DOMAIN called' :
            /\ "search" \in called'[i] \ called[i] =>
                  /\ called[i] = {}
                  /\ \E w \in Threads : wtask[w] = i /\ wpc[w] = "resolve"
            /\ "impact" \in called'[i] \ called[i] => called[i] = {"search"}
            /\ "place" \in called'[i] \ called[i] => called[i] = {"search", "impact"}
            /\ "refresh" \in called'[i] \ called[i] =>
                  called[i] = {"search", "impact", "place"}]_vars

\* results.csv written at the end of a parallel run in which an order went
\* through every step
C14_Witness ==
    /\ concurrency > 1
    /\ results_file.written
    /\ Len(validated_orders) = 2
    /\ \E i \in Orders : {"search", "impact", "place", "refresh"} \subseteq called[i]

Positive(d) == ~d.none /\ ~d.nan /\ d.coef > 0

\* C15: every OrderRow that validate_order_row returned has side BUY or SELL, a
\* known order_type, quantity > 0, time_in_force DAY or GTC (DAY when the field
\* was blank), limit_price > 0 for LIMIT and STOP_LIMIT and stop_price > 0 for
\* STOP and STOP_LIMIT.
C15_ValidatedOrders ==
    \A i \in 1..Len(validated_orders) :
        LET o == validated_orders[i]
            row == rows[o.row_num - 1]
        IN  /\ o.side \in {"BUY", "SELL"}
            /\ o.order_type \in {"MARKET", "LIMIT", "STOP", "STOP_LIMIT"}
            /\ Positive(o.quantity)
            /\ o.time_in_force \in {"DAY", "GTC"}
            /\ row.time_in_force \in {"", " "} => o.time_in_force = "DAY"
            /\ o.order_type \in {"LIMIT", "STOP_LIMIT"} => Positive(o.limit_price)
            /\ o.order_type \in {"STOP", "STOP_LIMIT"} => Positive(o.stop_price)

\* a STOP_LIMIT row with a blank time_in_force was validated
C15_Witness ==
    /\ Len(validated_orders) = 1
    /\ validated_orders[1].order_type = "STOP_LIMIT"
    /\ rows[1].time_in_force = " "
    /\ validated_orders[1].time_in_force = "DAY"

\* C16: get_universal_symbol_id returns None (and does not raise) when the
\* search yields no symbol, and when it yields more than one symbol and the
\* row gives no exchange.
C16_NoneIfMissingOrAmbiguous ==
    (/\ lookup.done
     /\ \/ lookup.symbols = <<>>
        \/ Len(lookup.symbols) > 1 /\ lookup.exchange = None)
        => ~lookup.raised /\ lookup.id = None

\* C20: refresh_account is invoked for an order only in a live run, after a
\* successful place call of that order and with a non-empty account_id, and
\* whatever the refresh call does, an exception on every attempt included, the
\* order ends PLACED.
C20_BestEffortRefresh ==
    \A i \in DOMAIN called :
        /\ ("refresh" \in called[i] \/ \E w \in Threads : wtask[w] = i /\ wpc[w] = "refresh")
              => /\ ~dry_run
                 /\ place_ok[i] >= 1
                 /\ validated_orders[i].account_id # ""
        /\ "refresh" \in called[i]
              => /\ futures[i].done \/ Finished(i)
                 /\ futures[i].done =>
                       ~futures[i].raised /\ futures[i].result.status = "PLACED"
                 /\ \A res \in ResultsOf(i) : res.status = "PLACED"

\* the refresh of a placed order raised on every attempt, and the order is PLACED
C20_Witness ==
    \E i \in DOMAIN called :
        /\ "refresh raised" \in called[i]
        /\ \E res \in ResultsOf(i) : res.status = "PLACED"

(***************************************************************************)
(* Claims about src/test2.py                                               *)
(***************************************************************************)
\* C17: without --live, src/test2.py is a dry run: no connection to TWS is ever
\* opened, place_to_tws is never entered and no order is transmitted, and once
\* the orders were fetched and printed the script ends with exit code 0.
C17_DryRunWithoutLive ==
    ~t2_args.live =>
        /\ ~ib.opened /\ ~ib.connected
        /\ transmitted = <<>>
        /\ t2_pc \in {"start", "fetched", "exited"}
        /\ (t2_pc = "exited" /\ df # <<>>) => exit_code = 0

\* a dry run that fetched two usable orders and ended
C17_Witness ==
    /\ ~t2_args.live
    /\ t2_pc = "exited"
    /\ Len(df) = 2
    /\ exit_code = 0

\* an upstream order that carries its symbol inside legs only
OnlyInLegs(o) == Falsy(o.symbol) /\ o.legs # <<>>

\* C18: every row fetch_snaptrade_orders returns, and every order place_to_tws
\* transmits, comes from an upstream order with its own symbol, side BUY or
\* SELL, a non-zero quantity and type MKT or LMT; an upstream order whose symbol
\* is inside legs only yields no row.
C18_SimpleStockOrdersOnly ==
    LET resp == Resp(t2_args.recent_first, t2_api)
        FromSimple(r) ==
            /\ ~Falsy(resp[r.order].symbol)
            /\ r.side \in VALID_SIDES
            /\ ~Falsy(Or(resp[r.order].quantity, resp[r.order].filled_quantity))
            /\ r.order_type \in {"MKT", "LMT"}
    IN  /\ \A k \in 1..Len(df) : FromSimple(df[k])
        /\ \A k \in 1..Len(transmitted) : FromSimple(transmitted[k])
        /\ \A j \in 1..Len(resp) :
               OnlyInLegs(resp[j]) => \A k \in 1..Len(df) : df[k].order # j

(***************************************************************************)
(* Claims about src/script.py                                              *)
(***************************************************************************)
\* C19: with DRY_RUN true place_order_from_csv never calls
\* trading.place_force_order; every call of it made the symbol search, and it
\* returned True exactly when the search returned an id.
C19_DryRunNeverPlaces ==
    DRY_RUN =>
        /\ force_orders = <<>>
        /\ s_pc # "place"
        /\ Len(s_found) = s_idx - 1
        /\ Len(s_returns) = s_idx - 1
        /\ \A k \in 1..Len(s_returns) : s_returns[k] <=> (s_found[k] # None)

\* a dry run of two orders: an id was found for the first and none for the second
C19_Witness ==
    /\ DRY_RUN
    /\ s_pc = "exited"
    /\ s_found = <<"S1", None>>
    /\ s_returns = <<TRUE, FALSE>>

(***************************************************************************)
(* Claims about the results of process_single_order (src/test.py)          *)
(***************************************************************************)
\* the trade ids the impact checks of order i returned
TradeIdsOf(i) == {x.trade_id : x \in {y \in impact_returns[i] : y.success}}

Pow10(n) == IF n = 0 THEN 1 ELSE IF n = 1 THEN 10 ELSE 100

\* two Decimals are the same number
SameNumber(a, b) == a.coef * Pow10(b.exp) = b.coef * Pow10(a.exp)

\* two optional prices agree: both absent, or both present and the same number
SamePrice(a, b) == IF a.none \/ b.none THEN a.none /\ b.none ELSE SameNumber(a, b)

\* two orders agree on the eight fields of the key
SameOrder(a, b) ==
    /\ a.account_id = b.account_id
    /\ a.ticker = b.ticker
    /\ a.side = b.side
    /\ SameNumber(a.quantity, b.quantity)
    /\ a.order_type = b.order_type
    /\ SamePrice(a.limit_price, b.limit_price)
    /\ SamePrice(a.stop_price, b.stop_price)
    /\ a.time_in_force = b.time_in_force

\* C22: two validated orders get the same idempotency key if and only if they
\* agree on account_id, ticker, side, quantity, order_type, limit_price,
\* stop_price and time_in_force, an absent price differing from a price of
\* zero; row_num and exchange do not count, so the later of two such orders is
\* skipped as a duplicate exactly when it agrees with the earlier one.
C22_KeyIffSameOrder ==
    \A i \in Orders : \A j \in Orders :
        /\ SameKey(i, j) <=> SameOrder(validated_orders[i], validated_orders[j])
        /\ (i < j /\ Finished(j)) =>
              ((\E res \in ResultsOf(j) : res.reason = "Duplicate order detected")
                  <=> SameOrder(validated_orders[i], validated_orders[j]))

(***************************************************************************)
(* Claims about invalid rows and failing orders (src/test.py)              *)
(***************************************************************************)
\* the results appended for the i-th loaded row
ResultsOfRow(i) == {k \in 1..Len(results) : results[k].row_num = RowNum(i)}

\* C23: a row that fails validation has, once process_orders is over, exactly
\* one result, SKIPPED with a reason that starts with 'Validation error'; it is
\* no validated order, so no API is called for it, and seen_keys holds keys of
\* validated orders only.
C23_InvalidRowSkipped ==
    /\ \A i \in 1..Len(rows) :
          ~validate_order_row(rows[i], RowNum(i)).ok =>
              /\ \A j \in Orders : validated_orders[j].row_num # RowNum(i)
              /\ ProcessOrdersOver =>
                    /\ Cardinality(ResultsOfRow(i)) = 1
                    /\ \A k \in ResultsOfRow(i) :
                          /\ results[k].status = "SKIPPED"
                          /\ results[k].reason = "Validation error"
    /\ seen_keys \subseteq {idempotency_key(validated_orders[j]) : j \in Orders}

\* the second pass has something left to do, or is over
SecondPassGoesOn ==
    \/ \E w \in Running : wpc[w] # "idle"
    \/ next_task <= Len(validated_orders)
    \/ \E i \in Orders : i \notin collected /\ futures[i].done
    \/ SecondPassOver

\* C24: an order whose processing raised gets the result FAILED, in the
\* sequential loop and in the pool; the second pass never stops on a failure
\* while orders are left, and when process_orders returns every validated order
\* has exactly one result with a final status.
C24_FailuresIsolated ==
    /\ \A k \in 1..Len(results) :
          results[k].reason = "Unexpected error" => results[k].status = "FAILED"
    /\ \A i \in Orders :
          (i \in collected /\ futures[i].raised) =>
              /\ ResultsOf(i) # {}
              /\ \A res \in ResultsOf(i) :
                    res.status = "FAILED" /\ res.reason = "Unexpected error"
    /\ main_pc = "execute" => SecondPassGoesOn
    /\ (main_pc = "done" \/ results_file.written) =>
          \A i \in Orders :
              /\ Cardinality({k \in 1..Len(results) :
                                 results[k].row_num = validated_orders[i].row_num}) = 1
              /\ \A res \in ResultsOf(i) :
                    res.status \in {"SKIPPED", "VALIDATED", "PLACED", "FAILED"}

\* process_orders returned from a pool in which the first order raised, and
\* from which the second order came out PLACED
C24_Witness ==
    /\ main_pc = "done"
    /\ concurrency > 1
    /\ Len(validated_orders) = 2
    /\ futures[1].raised
    /\ \E res \in ResultsOf(1) : res.status = "FAILED"
    /\ \E res \in ResultsOf(2) : res.status = "PLACED"

C26_InvokesAtLeastOnce ==
    \A t \in Threads :
        /\ tpc[t] = "returned" =>
              /\ invocations[t] >= 1
              /\ api_value[t] # None
              /\ retval[t] = api_value[t]
        /\ tpc[t] = "raised" =>
              /\ invocations[t] >= 1
              /\ last_exception[t] # NoOutcome

\* C27: _call_with_retry does not wait after its final permitted attempt: when
\* the invocation of attempt number max_retries has failed, whatever the
\* error, the thread makes no backoff sleep before the exception is raised.
C27_NoWaitAfterLastAttempt ==
    \A t \in Threads :
        (attempt[t] >= max_retries /\ last_exception[t] # NoOutcome
           /\ invocations[t] = attempt[t] + 1)
            => /\ tpc[t] # "backoff"
               /\ Len(waits[t]) <= Max(max_retries, 0)

(***************************************************************************)
(* Claims about results.csv                                                *)
(***************************************************************************)
\* C28: results.csv holds one row for each result, in ascending input row
\* number, whatever the order in which the results were appended: its row order
\* is fixed by the row numbers alone.
C28_ResultsInRowOrder ==
    results_file.written =>
        /\ Len(results_file.lines) = Len(results)
        /\ {results_file.lines[k] : k \in 1..Len(results)}
              = {to_dict(results[k]) : k \in 1..Len(results)}
        /\ \A k \in 1..(Len(results) - 1) :
              results_file.lines[k].input_row < results_file.lines[k + 1].input_row

\* results.csv of a pool whose second order finished before its first
C28_Witness ==
    /\ results_file.written
    /\ concurrency > 1
    /\ Len(results) = 2
    /\ results[1].row_num > results[2].row_num
    /\ \A k \in 1..2 : results[k].status \in {"PLACED", "VALIDATED", "FAILED"}

(***************************************************************************)
(* Claims about place_to_tws (src/test2.py)                                *)
(***************************************************************************)
\* C29: place_to_tws transmits the rows of the DataFrame one at a time and in
\* order: what was transmitted is a prefix of the DataFrame, a row is
\* transmitted only when the trades of all rows before it are done, and the
\* connection to TWS is open only inside the loop: it is closed when
\* place_to_tws is left, after the last row or by an exception.
C29_OneAtATime ==
    /\ [](/\ Len(transmitted) <= Len(df)
          /\ \A k \in 1..Len(transmitted) : transmitted[k] = df[k]
          /\ t2_pc = "waiting" => Len(transmitted) = t2_i
          /\ t2_pc = "loop" => Len(transmitted) = t2_i - 1
          /\ ib.connected => t2_pc \in {"loop", "waiting", "raising"}
          /\ t2_pc \in {"loop", "waiting", "raising"} => ib.connected
          /\ (t2_pc = "exited" /\ ib.opened /\ exit_code = 0) => transmitted = df)
    /\ [][Len(transmitted') # Len(transmitted) =>
            /\ t2_pc = "loop"
            /\ t2_pc' = "waiting"
            /\ Len(transmitted) = t2_i - 1
            /\ transmitted' = Append(transmitted, df[t2_i])]_vars

\* the first of two orders was transmitted and done, placing the second one
\* raised, and the connection is closed
C29_Witness ==
    /\ t2_pc = "exited"
    /\ ib.opened
    /\ ~ib.connected
    /\ exit_code = 1
    /\ Len(df) = 2
    /\ t2_i = 2
    /\ Len(transmitted) = 1
====
